---- MODULE Spec2Model ----
(***************************************************************************)
(* State-machine model of scripts/collect_google_trends.py: the retry     *)
(* loop of collect_all_trends in its two query modes, the two collect     *)
(* functions, the rate-limit classification and the batch partitioning.   *)
(*                                                                         *)
(* Conventions.  A calendar date is a day number (date.isoformat() is     *)
(* injective on dates, so records carry the day number).  A text whose    *)
(* characters matter (an error message, a provider region name) is a      *)
(* sequence of one-character strings.  A pandas NaN is the value NaN.     *)
(***************************************************************************)
EXTENDS Integers, Sequences, FiniteSets, TLC

(* ------------------------------------------------------------------ *)
(* Program constants                                                  *)
(* ------------------------------------------------------------------ *)
DELAY_BETWEEN_REQUESTS == 60
DELAY_ON_ERROR == 60
DELAY_ON_RATE_LIMIT == 300
DEFAULT_BATCH_SIZE == 5
EXCLUDE_PARTIAL_DATA == TRUE
EXCLUDE_RECENT_DAYS == 3

\* TRACKED_DISEASES as written in the source, in source order.
SourceCatalog ==
  << "influenza", "H3N2", "covid", "measles", "cholera", "ebola",
     "marburg virus", "dengue fever", "yellow fever", "zika virus",
     "plague", "mpox", "meningitis", "norovirus", "RSV virus", "SARS",
     "MERS", "bird flu", "hand foot mouth disease", "polio", "hepatitis A" >>

(* ------------------------------------------------------------------ *)
(* Bounds of the model                                                *)
(* ------------------------------------------------------------------ *)
MaxUnits == 2             \* a run has at most MaxUnits query units
MaxScenarioUnits == 3     \* ... at most MaxScenarioUnits when the provider follows a plan
MaxBatch == 1             \* BATCH_SIZE ranges over 1..MaxBatch in a comparative run
MaxScenarioBatch == 2     \* ... over 1..MaxScenarioBatch when the provider follows a plan
MaxRetriesBound == 3      \* MAX_RETRIES ranges over 1..MaxRetriesBound
MaxPlanBatch == 6         \* BATCH_SIZE ranges over 1..MaxPlanBatch when only partitioning
TodayStart == 10          \* day number of utcnow() when the run starts
MaxTermAttempts == 6      \* terms * MAX_RETRIES of a run whose provider and sink may fail at any call
MaxDaysElapsed == 1       \* the date changes at most MaxDaysElapsed times while a run is in progress
MaxChunks == 2            \* record lists are up to MaxChunks * batch_size + 1 long

\* The catalogs of the runs are prefixes of this ordering of the tracked terms.
CatalogPool ==
  << "covid", "ebola", "influenza", "H3N2", "measles", "cholera",
     "marburg virus", "dengue fever", "yellow fever", "zika virus",
     "plague", "mpox", "meningitis", "norovirus", "RSV virus", "SARS",
     "MERS", "bird flu", "hand foot mouth disease", "polio", "hepatitis A" >>

(* ------------------------------------------------------------------ *)
(* Small helpers                                                      *)
(* ------------------------------------------------------------------ *)
Min(a, b) == IF a < b THEN a ELSE b

RECURSIVE Pow2(_)
Pow2(k) == IF k <= 0 THEN 1 ELSE 2 * Pow2(k - 1)

Range(s) == { s[k] : k \in 1..Len(s) }

RECURSIVE SumSeq(_)
SumSeq(s) == IF s = << >> THEN 0 ELSE Head(s) + SumSeq(Tail(s))

RECURSIVE Flatten(_)
Flatten(ss) == IF ss = << >> THEN << >> ELSE Head(ss) \o Flatten(Tail(ss))

\* Python slice s[a:b] on a sequence, a and b zero-based, clipped to the length.
Slice(s, a, b) == SubSeq(s, a + 1, Min(b, Len(s)))

(* ------------------------------------------------------------------ *)
(* Texts: str.lower() and the `in` substring test                     *)
(* ------------------------------------------------------------------ *)
UpperLetters == << "A","B","C","D","E","F","G","H","I","J","K","L","M",
                   "N","O","P","Q","R","S","T","U","V","W","X","Y","Z" >>
LowerLetters == << "a","b","c","d","e","f","g","h","i","j","k","l","m",
                   "n","o","p","q","r","s","t","u","v","w","x","y","z" >>

LowerChar(c) ==
  IF \E k \in 1..26 : UpperLetters[k] = c
  THEN LowerLetters[CHOOSE k \in 1..26 : UpperLetters[k] = c]
  ELSE c

UpperChar(c) ==
  IF \E k \in 1..26 : LowerLetters[k] = c
  THEN UpperLetters[CHOOSE k \in 1..26 : LowerLetters[k] = c]
  ELSE c

\* str.lower()
Lower(s) == [k \in 1..Len(s) |-> LowerChar(s[k])]

\* `pat in s`
Contains(s, pat) ==
  \E k \in 0..(Len(s) - Len(pat)) : SubSeq(s, k + 1, k + Len(pat)) = pat

T429 == << "4","2","9" >>
TRateLimit == << "r","a","t","e"," ","l","i","m","i","t" >>
TTooMany == << "t","o","o"," ","m","a","n","y"," ","r","e","q","u","e","s","t","s" >>

\* Individual mode, the except clause: is_rate_limit
IsRateLimitIndividualNoLower(error_msg) ==
  \/ Contains(error_msg, T429)
  \/ Contains(error_msg, TRateLimit)
  \/ Contains(error_msg, TTooMany)

IsRateLimitIndividual(error_msg) ==
  \/ Contains(error_msg, T429)
  \/ Contains(Lower(error_msg), TRateLimit)
  \/ Contains(Lower(error_msg), TTooMany)

\* Comparative mode, the except clause: is_rate_limit
IsRateLimitBatch(error_msg) ==
  \/ Contains(error_msg, T429)
  \/ Contains(Lower(error_msg), TRateLimit)
  \/ Contains(Lower(error_msg), TTooMany)

(* ------------------------------------------------------------------ *)
(* Region names: normalize_region_name                                *)
(* ------------------------------------------------------------------ *)
N_UnitedStates == << "U","n","i","t","e","d"," ","S","t","a","t","e","s" >>
N_Us == << "U","S" >>
N_Usa == << "U","S","A" >>
N_UnitedKingdom == << "U","n","i","t","e","d"," ","K","i","n","g","d","o","m" >>
N_Uk == << "U","K" >>
N_CongoKinshasa == << "C","o","n","g","o"," ","-"," ","K","i","n","s","h","a","s","a" >>
N_DemocraticRepublicOfCongo == << "D","e","m","o","c","r","a","t","i","c"," ","R","e","p","u","b","l","i","c"," ","o","f"," ","C","o","n","g","o" >>
N_CongoBrazzaville == << "C","o","n","g","o"," ","-"," ","B","r","a","z","z","a","v","i","l","l","e" >>
N_Congo == << "C","o","n","g","o" >>
N_Drc == << "D","R","C" >>
N_MyanmarBurma == << "M","y","a","n","m","a","r"," ","(","B","u","r","m","a",")" >>
N_Myanmar == << "M","y","a","n","m","a","r" >>
N_Burma == << "B","u","r","m","a" >>
N_France == << "F","r","a","n","c","e" >>
N_LowerUs == << "u","s" >>

\* The dict `mappings`, as (key, value) pairs in source order.
mappingsChained ==
  << << N_UnitedStates, N_UnitedStates >>,
     << N_Us, N_Usa >>,
     << N_Usa, N_UnitedStates >>,
     << N_UnitedKingdom, N_UnitedKingdom >>,
     << N_Uk, N_UnitedKingdom >>,
     << N_CongoKinshasa, N_Drc >>,
     << N_CongoBrazzaville, N_Congo >>,
     << N_Drc, N_DemocraticRepublicOfCongo >>,
     << N_MyanmarBurma, N_Burma >>,
     << N_Burma, N_Myanmar >> >>

mappingsWithoutDrc ==
  << << N_UnitedStates, N_UnitedStates >>,
     << N_Us, N_UnitedStates >>,
     << N_Usa, N_UnitedStates >>,
     << N_UnitedKingdom, N_UnitedKingdom >>,
     << N_Uk, N_UnitedKingdom >>,
     << N_CongoKinshasa, N_DemocraticRepublicOfCongo >>,
     << N_CongoBrazzaville, N_Congo >>,
     << N_MyanmarBurma, N_Myanmar >>,
     << N_Burma, N_Myanmar >> >>

mappings ==
  << << N_UnitedStates, N_UnitedStates >>,
     << N_Us, N_UnitedStates >>,
     << N_Usa, N_UnitedStates >>,
     << N_UnitedKingdom, N_UnitedKingdom >>,
     << N_Uk, N_UnitedKingdom >>,
     << N_CongoKinshasa, N_DemocraticRepublicOfCongo >>,
     << N_CongoBrazzaville, N_Congo >>,
     << N_Drc, N_DemocraticRepublicOfCongo >>,
     << N_MyanmarBurma, N_Myanmar >>,
     << N_Burma, N_Myanmar >> >>

Whitespace == { " ", "\t", "\n" }

\* str.strip()
RECURSIVE LStrip(_)
LStrip(s) == IF s # << >> /\ Head(s) \in Whitespace THEN LStrip(Tail(s)) ELSE s

RECURSIVE RStrip(_)
RStrip(s) ==
  IF s # << >> /\ s[Len(s)] \in Whitespace THEN RStrip(SubSeq(s, 1, Len(s) - 1)) ELSE s

Strip(s) == RStrip(LStrip(s))

normalize_region_name_unstripped(region) ==
  IF \E k \in 1..Len(mappings) : mappings[k][1] = region
  THEN mappings[CHOOSE k \in 1..Len(mappings) : mappings[k][1] = region][2]
  ELSE region

normalize_region_name(region) ==
  LET stripped == Strip(region)
  IN IF \E k \in 1..Len(mappings) : mappings[k][1] = stripped
     THEN mappings[CHOOSE k \in 1..Len(mappings) : mappings[k][1] = stripped][2]
     ELSE stripped

(* ------------------------------------------------------------------ *)
(* validate_data_quality                                              *)
(* ------------------------------------------------------------------ *)
\* The list `issues` the function builds; it returns issues = [].
QualityIssuesFlaggingEmpty(time_series_records, region_records) ==
  (IF \A k \in 1..Len(time_series_records) : time_series_records[k].interest_value = 0
   THEN << "all_zero" >> ELSE << >>)
  \o
  (IF Len(region_records) < 10 THEN << "few_regions" >> ELSE << >>)

QualityIssuesUpToTen(time_series_records, region_records) ==
  (IF /\ time_series_records # << >>
      /\ \A k \in 1..Len(time_series_records) : time_series_records[k].interest_value = 0
   THEN << "all_zero" >> ELSE << >>)
  \o
  (IF Len(region_records) <= 10 THEN << "few_regions" >> ELSE << >>)

QualityIssues(time_series_records, region_records) ==
  (IF /\ time_series_records # << >>
      /\ \A k \in 1..Len(time_series_records) : time_series_records[k].interest_value = 0
   THEN << "all_zero" >> ELSE << >>)
  \o
  (IF Len(region_records) < 10 THEN << "few_regions" >> ELSE << >>)

validate_data_quality(time_series_records, region_records) ==
  QualityIssues(time_series_records, region_records) = << >>

\* The two lists the caller passed, after the call: the function reads them
\* and assigns to neither.
ValidatedListsWithoutZeros(time_series_records, region_records) ==
  [time_series_records |-> SelectSeq(time_series_records, LAMBDA r : r.interest_value # 0),
   region_records |-> region_records]

ValidatedLists(time_series_records, region_records) ==
  [time_series_records |-> time_series_records, region_records |-> region_records]

\* One call of the validator as the run sees it: what it was given, its
\* verdict, and the lists its caller goes on with.
Validation(disease, time_series_records, region_records) ==
  [disease |-> disease,
   time_series_records |-> time_series_records,
   region_records |-> region_records,
   issues |-> QualityIssues(time_series_records, region_records),
   ok |-> validate_data_quality(time_series_records, region_records),
   after |-> ValidatedLists(time_series_records, region_records)]

(* ------------------------------------------------------------------ *)
(* Provider answers                                                   *)
(* ------------------------------------------------------------------ *)
\* A pandas NaN in a region column.
NaN == -1

\* df_time: the keyword columns, whether the isPartial column is there, and
\* the rows in index order, each [date, isPartial, val], val a value per column.
\* df_region: the keyword columns and the rows in index order, each
\* [region, score], score a value or NaN per column.
EmptyFrame == [columns |-> {}, has_isPartial |-> FALSE, rows |-> << >>]

Empty(df) == df.rows = << >> \/ df.columns = {}

\* The interest values the modelled provider reports: per term, by row number.
InterestOf(disease, k) ==
  IF disease = "covid" THEN << 10, 100, 7 >>[k] ELSE << 100, 5, 0 >>[k]

TimeRow(cols, date, partial, k) ==
  [date |-> date, isPartial |-> partial, val |-> [d \in cols |-> InterestOf(d, k)]]

\* Two finished days, the later one exactly EXCLUDE_RECENT_DAYS before TodayStart.
TwoPointFrame(cols) ==
  [columns |-> cols, has_isPartial |-> TRUE,
   rows |-> << TimeRow(cols, TodayStart - EXCLUDE_RECENT_DAYS - 1, FALSE, 1),
               TimeRow(cols, TodayStart - EXCLUDE_RECENT_DAYS, FALSE, 2) >>]

\* The same two days followed by a recent day the provider flags partial.
RecentFrame(cols) ==
  [columns |-> cols, has_isPartial |-> TRUE,
   rows |-> << TimeRow(cols, TodayStart - EXCLUDE_RECENT_DAYS - 1, FALSE, 1),
               TimeRow(cols, TodayStart - EXCLUDE_RECENT_DAYS, FALSE, 2),
               TimeRow(cols, TodayStart, TRUE, 3) >>]

RegionRow(cols, region, k) ==
  [region |-> region, score |-> [d \in cols |-> InterestOf(d, k)]]

TwoRegionFrame(cols) ==
  [columns |-> cols,
   rows |-> << RegionRow(cols, N_Us, 1), RegionRow(cols, << " " >> \o N_Burma, 3) >>]

\* The two finished days of TwoPointFrame with other values: the provider
\* rescales a series between two queries.
RevisedFrame(cols) ==
  [columns |-> cols, has_isPartial |-> TRUE,
   rows |-> << TimeRow(cols, TodayStart - EXCLUDE_RECENT_DAYS - 1, FALSE, 2),
               TimeRow(cols, TodayStart - EXCLUDE_RECENT_DAYS, FALSE, 3) >>]

\* Two finished days on which only "covid" has any interest.
QuietFrame(cols) ==
  [columns |-> cols, has_isPartial |-> TRUE,
   rows |-> << TimeRow(cols, TodayStart - EXCLUDE_RECENT_DAYS - 1, FALSE, 3),
               TimeRow(cols, TodayStart - EXCLUDE_RECENT_DAYS, FALSE, 3) >>]

\* Five consecutive days up to TodayStart, none flagged partial, in a frame
\* without the isPartial column.
DatedFrame(cols) ==
  [columns |-> cols, has_isPartial |-> FALSE,
   rows |-> [j \in 1..5 |-> TimeRow(cols, TodayStart - 5 + j, FALSE, ((j - 1) % 3) + 1)]]

\* Ten countries.
TenRegionNames ==
  << N_UnitedStates, N_UnitedKingdom, N_CongoKinshasa, N_CongoBrazzaville, N_MyanmarBurma,
     N_France, N_Congo, N_Myanmar, N_DemocraticRepublicOfCongo, N_Drc >>

TenRegionFrame(cols) ==
  [columns |-> cols,
   rows |-> [j \in 1..10 |-> RegionRow(cols, TenRegionNames[j], ((j - 1) % 3) + 1)]]

\* The region names of the provider: the keys and the values of `mappings`,
\* other names, the empty name; bare and with whitespace around.
RegionNameCores ==
  { mappings[k][1] : k \in 1..Len(mappings) }
  \cup { mappings[k][2] : k \in 1..Len(mappings) }
  \cup { N_France, N_LowerUs, << >>, << "U"," ","S" >> }

RegionNamePool ==
  { w1 \o core \o w2 : w1 \in { << >>, << " " >>, << "\t"," " >> },
                        core \in RegionNameCores,
                        w2 \in { << >>, << " " >>, << "\n" >> } }

\* `batch_size = 100` of the two upload functions.
batch_size == 100

\* The lengths of the frames around the multiples of batch_size.
BulkSizes ==
  { 0, 1 } \cup UNION { { c * batch_size - 1, c * batch_size, c * batch_size + 1 } :
                         c \in 1..MaxChunks }

\* n regions with the scores 1, 2, ... (modulo 101) in every column.
BulkRegionFrame(cols, n) ==
  [columns |-> cols,
   rows |-> [j \in 1..n |-> [region |-> N_France, score |-> [d \in cols |-> j % 101]]]]

\* n finished days up to the cutoff of TodayStart, none flagged partial.
BulkTimeFrame(cols, n) ==
  [columns |-> cols, has_isPartial |-> FALSE,
   rows |-> [j \in 1..n |->
               [date |-> TodayStart - EXCLUDE_RECENT_DAYS - n + j, isPartial |-> FALSE,
                val |-> [d \in cols |-> j % 101]]]]

\* Five days around the cutoff of TodayStart: a finished day without
\* interest, an early day the provider flags partial, the day of the cutoff,
\* the day after it without interest, and the current day, flagged partial.
MixedFrame(cols) ==
  [columns |-> cols, has_isPartial |-> TRUE,
   rows |-> << [date |-> TodayStart - EXCLUDE_RECENT_DAYS - 2, isPartial |-> FALSE,
                val |-> [d \in cols |-> 0]],
               [date |-> TodayStart - EXCLUDE_RECENT_DAYS - 1, isPartial |-> TRUE,
                val |-> [d \in cols |-> 50]],
               [date |-> TodayStart - EXCLUDE_RECENT_DAYS, isPartial |-> FALSE,
                val |-> [d \in cols |-> 30]],
               [date |-> TodayStart - EXCLUDE_RECENT_DAYS + 1, isPartial |-> FALSE,
                val |-> [d \in cols |-> 0]],
               [date |-> TodayStart, isPartial |-> TRUE,
                val |-> [d \in cols |-> 4]] >>]

\* A finished day with a value and the day after the cutoff of TodayStart
\* with a missing value.
GapFrame(cols) ==
  [columns |-> cols, has_isPartial |-> TRUE,
   rows |-> << [date |-> TodayStart - EXCLUDE_RECENT_DAYS, isPartial |-> FALSE,
                val |-> [d \in cols |-> 20]],
               [date |-> TodayStart - EXCLUDE_RECENT_DAYS + 1, isPartial |-> FALSE,
                val |-> [d \in cols |-> NaN]] >>]

\* Three regions: one without interest, one with a missing score, one scored.
ScoredRegionFrame(cols) ==
  [columns |-> cols,
   rows |-> << [region |-> N_France, score |-> [d \in cols |-> 0]],
               [region |-> N_Us, score |-> [d \in cols |-> NaN]],
               [region |-> N_Uk, score |-> [d \in cols |-> 40]] >>]

\* The columns of a frame that answers another query than the one built.
ForeignColumns == { "zika virus" }

OneRegionFrame(cols, region) ==
  [columns |-> cols, rows |-> << RegionRow(cols, region, 1) >>]

\* The frames a query for `diseases` is answered with: nothing, or rows with
\* a column for every keyword.
TimeFrames(diseases) ==
  { EmptyFrame, TwoPointFrame(Range(diseases)), RecentFrame(Range(diseases)) }

RegionFrames(diseases) ==
  { [columns |-> {}, rows |-> << >>], TwoRegionFrame(Range(diseases)) }

\* The texts of the errors the provider and the sink raise in a run; a
\* rate-limited provider answers HTTP 429.
M_429 == << "c","o","d","e"," ","4","2","9" >>
M_Timeout == << "t","i","m","e","d"," ","o","u","t" >>
RunMessages == { M_429, M_Timeout }
RateLimitTexts == { M_429 }

\* What the provider does during one attempt: where it raises (if at all),
\* with what text, and the two frames it returns otherwise.
ProviderAnswers(diseases, texts) ==
  [raise_at : {"build_payload", "interest_over_time", "interest_by_region"},
   error_msg : texts,
   df_time : { EmptyFrame }, df_region : { [columns |-> {}, rows |-> << >>] }]
  \cup
  [raise_at : {"none"}, error_msg : { << >> },
   df_time : TimeFrames(diseases), df_region : RegionFrames(diseases)]

\* The answers of a provider that follows a plan for the unit:
\*   "any"           no assumption
\*   "rate_limited"  raises a rate-limit error on every attempt
\*   "data"          never raises, returns a time series for every term
\*   "two_point"     never raises, returns the two-point series for every term
\*   "plain"         raises, or returns the two-point series and two regions
\*   "dated"         raises, or returns the five-day series and two regions
\*   "revised"       raises, or returns one of two series for the same two
\*                   days, and two regions
\*   "quality"       never raises, returns no series, a series with a zero in
\*                   a column or with an all-zero column, and no, two or ten
\*                   regions
\*   "regions"       never raises, returns no series and one region of any name
\*   "frames"        raises, or returns any of the series frames (none, flagged
\*                   and unflagged days around the cutoff, a missing value,
\*                   other columns than asked for) and any of the region
\*                   frames (none, two regions, zero and missing scores)
\*   "bulk"          never raises, returns no series, two days or more days than
\*                   fit in one upsert, and regions of every length in BulkSizes
PlannedAnswers(kind, diseases, texts) ==
  CASE kind = "any" -> ProviderAnswers(diseases, texts)
    [] kind = "rate_limited" ->
         { a \in ProviderAnswers(diseases, RateLimitTexts) : a.raise_at # "none" }
    [] kind = "data" ->
         { a \in ProviderAnswers(diseases, texts) :
             a.raise_at = "none" /\ a.df_time # EmptyFrame }
    [] kind = "two_point" ->
         { a \in ProviderAnswers(diseases, texts) :
             a.raise_at = "none" /\ a.df_time = TwoPointFrame(Range(diseases)) }
    [] kind = "dated" ->
         { a \in ProviderAnswers(diseases, texts) : a.raise_at = "build_payload" }
         \cup { [raise_at |-> "none", error_msg |-> << >>,
                 df_time |-> DatedFrame(Range(diseases)),
                 df_region |-> TwoRegionFrame(Range(diseases))] }
    [] kind = "revised" ->
         { a \in ProviderAnswers(diseases, texts) : a.raise_at = "build_payload" }
         \cup [raise_at : {"none"}, error_msg : { << >> },
               df_time : { TwoPointFrame(Range(diseases)), RevisedFrame(Range(diseases)) },
               df_region : { TwoRegionFrame(Range(diseases)) }]
    [] kind = "quality" ->
         [raise_at : {"none"}, error_msg : { << >> },
          df_time : { EmptyFrame, RevisedFrame(Range(diseases)), QuietFrame(Range(diseases)) },
          df_region : { [columns |-> {}, rows |-> << >>],
                        TwoRegionFrame(Range(diseases)), TenRegionFrame(Range(diseases)) }]
    [] kind = "regions" ->
         [raise_at : {"none"}, error_msg : { << >> },
          df_time : { EmptyFrame },
          df_region : { OneRegionFrame(Range(diseases), r) : r \in RegionNamePool }]
    [] kind = "frames" ->
         { a \in ProviderAnswers(diseases, texts) : a.raise_at # "none" }
         \cup [raise_at : {"none"}, error_msg : { << >> },
               df_time : { EmptyFrame, RecentFrame(Range(diseases)),
                           DatedFrame(Range(diseases)), MixedFrame(Range(diseases)),
                           GapFrame(Range(diseases)), MixedFrame(ForeignColumns) },
               df_region : { [columns |-> {}, rows |-> << >>],
                             TwoRegionFrame(Range(diseases)),
                             ScoredRegionFrame(Range(diseases)) }]
    [] kind = "bulk" ->
         [raise_at : {"none"}, error_msg : { << >> },
          df_time : { EmptyFrame, TwoPointFrame(Range(diseases)),
                      BulkTimeFrame(Range(diseases), batch_size + 1) },
          df_region : { BulkRegionFrame(Range(diseases), n) : n \in BulkSizes }]
    [] kind = "plain" ->
         { a \in ProviderAnswers(diseases, texts) :
             \/ a.raise_at # "none"
             \/ /\ a.df_time = TwoPointFrame(Range(diseases))
                /\ a.df_region = TwoRegionFrame(Range(diseases)) }

(* ------------------------------------------------------------------ *)
(* Events of one attempt, in program order                            *)
(* ------------------------------------------------------------------ *)
\* time.sleep(0.5 + random.random()): at least JitterFloor whole seconds.
JitterFloor == 0

Ev(op, secs) == [op |-> op, secs |-> secs]
ProviderCall(op) == Ev(op, 0)
Sleep(secs) == Ev("sleep", secs)

(* ------------------------------------------------------------------ *)
(* collect_all_data_for_disease                                       *)
(* ------------------------------------------------------------------ *)
\* `cutoff_date = None`: no cutoff computed.
NoCutoff == 0

\* `cutoff_date = datetime.utcnow().date() - timedelta(days=EXCLUDE_RECENT_DAYS)`,
\* computed in the collect call when the series frame is not empty; `today`
\* is the date at the call.
cutoff_dateOfRunStart(today) ==
  IF EXCLUDE_PARTIAL_DATA THEN TodayStart - EXCLUDE_RECENT_DAYS ELSE NoCutoff

cutoff_date(today) ==
  IF EXCLUDE_PARTIAL_DATA THEN today - EXCLUDE_RECENT_DAYS ELSE NoCutoff

\* `if cutoff_date and date_obj > cutoff_date: continue`
ExcludedRecentIndividualOnCutoff(date_obj, now) ==
  cutoff_date(now) # NoCutoff /\ date_obj >= cutoff_date(now)

ExcludedRecentIndividual(date_obj, now) ==
  cutoff_date(now) # NoCutoff /\ date_obj > cutoff_date(now)

\* `is_partial`: False unless the row has the isPartial column and it is set.
IsPartialNever(df_time, row) == FALSE

IsPartial(df_time, row) == df_time.has_isPartial /\ row.isPartial

\* str(e) of the ValueError of int(nan).
M_NaN == << "c","a","n","n","o","t"," ","c","o","n","v","e","r","t"," ",
           "f","l","o","a","t"," ","N","a","N"," ","t","o"," ","i","n","t","e","g","e","r" >>

\* `int(row[disease])` raises on a missing value; it is evaluated for the
\* rows that pass the two filters.
ConversionRaisesIndividual(df_time, disease, now) ==
  /\ ~Empty(df_time)
  /\ disease \in df_time.columns
  /\ \E k \in 1..Len(df_time.rows) :
       /\ ~ExcludedRecentIndividual(df_time.rows[k].date, now)
       /\ ~(EXCLUDE_PARTIAL_DATA /\ IsPartial(df_time, df_time.rows[k]))
       /\ df_time.rows[k].val[disease] = NaN

TimeSeriesForDisease(df_time, disease, now) ==
  IF ~Empty(df_time) /\ disease \in df_time.columns
  THEN LET kept == SelectSeq(df_time.rows,
                     LAMBDA row : /\ ~ExcludedRecentIndividual(row.date, now)
                                  /\ ~(EXCLUDE_PARTIAL_DATA /\ IsPartial(df_time, row)))
       IN [k \in 1..Len(kept) |->
             [disease |-> disease, date |-> kept[k].date,
              interest_value |-> kept[k].val[disease]]]
  ELSE << >>

\* df_region[disease].dropna(), then one record per remaining region.
RegionRecordsForDroppingZeros(df_region, disease, collection_date) ==
  LET disease_data == SelectSeq(df_region.rows,
                                LAMBDA row : row.score[disease] # NaN /\ row.score[disease] # 0)
  IN [k \in 1..Len(disease_data) |->
        [disease |-> disease,
         region |-> normalize_region_name(disease_data[k].region),
         region_code |-> "None",
         popularity_score |-> disease_data[k].score[disease],
         date |-> collection_date]]

RegionRecordsFor(df_region, disease, collection_date) ==
  LET disease_data == SelectSeq(df_region.rows, LAMBDA row : row.score[disease] # NaN)
  IN [k \in 1..Len(disease_data) |->
        [disease |-> disease,
         region |-> normalize_region_name(disease_data[k].region),
         region_code |-> "None",
         popularity_score |-> disease_data[k].score[disease],
         date |-> collection_date]]

RegionsForDisease(df_region, disease, collection_date) ==
  IF ~Empty(df_region) /\ disease \in df_region.columns
  THEN RegionRecordsFor(df_region, disease, collection_date)
  ELSE << >>

\* The provider calls and pauses of one collect call, up to the raising call.
CollectTraceKeepingOn(raise_at) ==
  << ProviderCall("build_payload") >>
  \o (IF raise_at = "build_payload" THEN << >>
      ELSE << Sleep(JitterFloor), ProviderCall("interest_over_time"),
              Sleep(JitterFloor), ProviderCall("interest_by_region") >>)

CollectTrace(raise_at) ==
  << ProviderCall("build_payload") >>
  \o (IF raise_at = "build_payload" THEN << >>
      ELSE << Sleep(JitterFloor), ProviderCall("interest_over_time") >>
           \o (IF raise_at = "interest_over_time" THEN << >>
               ELSE << Sleep(JitterFloor), ProviderCall("interest_by_region") >>))

\* `pytrends.build_payload([disease], ...)`: the keyword list of the query.
PayloadIndividualWithNeighbour(disease) == << disease, disease >>

PayloadIndividual(disease) == << disease >>

collect_all_data_for_disease(answer, disease, collection_date, now) ==
  IF answer.raise_at # "none"
  THEN [raised |-> TRUE, error_msg |-> answer.error_msg,
        query |-> PayloadIndividual(disease),
        time_series_records |-> << >>, region_records |-> << >>,
        validated |-> << >>, cutoff_date |-> NoCutoff,
        trace |-> CollectTrace(answer.raise_at)]
  ELSE IF ConversionRaisesIndividual(answer.df_time, disease, now)
  THEN [raised |-> TRUE, error_msg |-> M_NaN,
        query |-> PayloadIndividual(disease),
        time_series_records |-> << >>, region_records |-> << >>,
        validated |-> << >>, cutoff_date |-> cutoff_date(now),
        trace |-> CollectTrace("interest_over_time")]
  ELSE LET ts == TimeSeriesForDisease(answer.df_time, disease, now)
           rg == RegionsForDisease(answer.df_region, disease, collection_date)
           v == Validation(disease, ts, rg)
       IN [raised |-> FALSE, error_msg |-> << >>,
           query |-> PayloadIndividual(disease),
           time_series_records |-> v.after.time_series_records,
           region_records |-> v.after.region_records,
           validated |-> << v >>,
           cutoff_date |-> IF ~Empty(answer.df_time) /\ disease \in answer.df_time.columns
                           THEN cutoff_date(now) ELSE NoCutoff,
           trace |-> CollectTrace("none")]

(* ------------------------------------------------------------------ *)
(* collect_data_for_batch                                             *)
(* ------------------------------------------------------------------ *)
ExcludedRecentBatchOnCutoff(date_obj, now) ==
  cutoff_date(now) # NoCutoff /\ date_obj >= cutoff_date(now)

ExcludedRecentBatch(date_obj, now) ==
  cutoff_date(now) # NoCutoff /\ date_obj > cutoff_date(now)

ConversionRaisesBatchBeforeFilters(df_time, diseases, now) ==
  /\ ~Empty(df_time)
  /\ \E k \in 1..Len(df_time.rows) :
       \E disease \in Range(diseases) \cap df_time.columns :
         df_time.rows[k].val[disease] = NaN

ConversionRaisesBatch(df_time, diseases, now) ==
  /\ ~Empty(df_time)
  /\ \E k \in 1..Len(df_time.rows) :
       /\ ~ExcludedRecentBatch(df_time.rows[k].date, now)
       /\ ~(EXCLUDE_PARTIAL_DATA /\ IsPartial(df_time, df_time.rows[k]))
       /\ \E disease \in Range(diseases) \cap df_time.columns :
            df_time.rows[k].val[disease] = NaN

TimeSeriesForBatch(df_time, diseases, now) ==
  LET kept == IF Empty(df_time) THEN << >>
              ELSE SelectSeq(df_time.rows,
                     LAMBDA row : /\ ~ExcludedRecentBatch(row.date, now)
                                  /\ ~(EXCLUDE_PARTIAL_DATA /\ IsPartial(df_time, row)))
  IN [disease \in Range(diseases) |->
        IF disease \in df_time.columns
        THEN [k \in 1..Len(kept) |->
                [disease |-> disease, date |-> kept[k].date,
                 interest_value |-> kept[k].val[disease]]]
        ELSE << >>]

RegionsForBatch(df_region, diseases, collection_date) ==
  [disease \in Range(diseases) |->
     IF ~Empty(df_region) /\ disease \in df_region.columns
     THEN RegionRecordsFor(df_region, disease, collection_date)
     ELSE << >>]

\* `pytrends.build_payload(diseases, ...)`: the keyword list of the query.
PayloadBatch(diseases) == diseases

collect_data_for_batch(answer, diseases, collection_date, now) ==
  IF answer.raise_at # "none"
  THEN [raised |-> TRUE, error_msg |-> answer.error_msg,
        query |-> PayloadBatch(diseases),
        time_series_dict |-> [disease \in Range(diseases) |-> << >>],
        region_dict |-> [disease \in Range(diseases) |-> << >>],
        validated |-> << >>, cutoff_date |-> NoCutoff,
        trace |-> CollectTrace(answer.raise_at)]
  ELSE IF ConversionRaisesBatch(answer.df_time, diseases, now)
  THEN [raised |-> TRUE, error_msg |-> M_NaN,
        query |-> PayloadBatch(diseases),
        time_series_dict |-> [disease \in Range(diseases) |-> << >>],
        region_dict |-> [disease \in Range(diseases) |-> << >>],
        validated |-> << >>, cutoff_date |-> cutoff_date(now),
        trace |-> CollectTrace("interest_over_time")]
  ELSE LET ts == TimeSeriesForBatch(answer.df_time, diseases, now)
           rg == RegionsForBatch(answer.df_region, diseases, collection_date)
           v == [k \in 1..Len(diseases) |->
                   Validation(diseases[k], ts[diseases[k]], rg[diseases[k]])]
       IN [raised |-> FALSE, error_msg |-> << >>,
           query |-> PayloadBatch(diseases),
           time_series_dict |->
             [disease \in Range(diseases) |->
                v[CHOOSE k \in 1..Len(diseases) : diseases[k] = disease].after.time_series_records],
           region_dict |->
             [disease \in Range(diseases) |->
                v[CHOOSE k \in 1..Len(diseases) : diseases[k] = disease].after.region_records],
           validated |-> v,
           cutoff_date |-> IF ~Empty(answer.df_time) THEN cutoff_date(now) ELSE NoCutoff,
           trace |-> CollectTrace("none")]

(* ------------------------------------------------------------------ *)
(* upload_to_supabase, upload_region_records_to_supabase              *)
(* ------------------------------------------------------------------ *)
\* The sink's behaviour in one attempt: `at` is the ordinal (counted over the
\* attempt) of the upsert call that raises, 0 when none does.
\* range(0, len(records), batch_size): the number of upsert calls of one upload.
UpsertCallsFloor(records) == Len(records) \div batch_size

UpsertCalls(records) == (Len(records) + batch_size - 1) \div batch_size

\* `batch = records[i:i + batch_size]` in iteration k of the upload's loop.
Chunk(records, k) == Slice(records, (k - 1) * batch_size, (k - 1) * batch_size + batch_size)

\* One upload of `records` when `done` upsert calls were made before it in
\* this attempt: whether it raises, the calls made so far, the chunks given
\* to the upsert calls made (`sent`), the upsert events.
UploadAllOrNothing(op, records, done, at) ==
  LET n == UpsertCalls(records)
      raised == at > done /\ at <= done + n
      made == IF raised THEN at - done ELSE n
  IN [raised |-> raised, calls |-> done + made,
      handed |-> IF records = << >> THEN << >> ELSE << records >>,
      sent |-> IF records = << >> THEN << >>
               ELSE << [k \in 1..made |-> Chunk(records, k)] >>,
      stored |-> IF raised THEN << >> ELSE records,
      trace |-> [k \in 1..made |-> Ev(op, 0)]]

Upload(op, records, done, at) ==
  LET n == UpsertCalls(records)
      raised == at > done /\ at <= done + n
      made == IF raised THEN at - done ELSE n
  IN [raised |-> raised, calls |-> done + made,
      handed |-> IF records = << >> THEN << >> ELSE << records >>,
      sent |-> IF records = << >> THEN << >>
               ELSE << [k \in 1..made |-> Chunk(records, k)] >>,
      stored |-> IF raised THEN SubSeq(records, 1, batch_size * (made - 1)) ELSE records,
      trace |-> [k \in 1..made |-> Ev(op, 0)]]

upload_to_supabase(records, done, at) == Upload("upsert_time_series", records, done, at)

upload_region_records_to_supabase(records, done, at) == Upload("upsert_regions", records, done, at)

\* `.upsert(batch, on_conflict="disease,date")`: the columns that identify
\* the row a written record replaces.
TimeSeriesConflictKeyDiseaseOnly(r) == << r.disease >>

TimeSeriesConflictKey(r) == << r.disease, r.date >>

\* The google_trends table after the sink has upserted `rows`, one by one: a
\* row replaces the stored row with its conflict key, if any, so of the rows
\* with one conflict key the last one upserted stays.
UpsertTimeSeries(table, rows) ==
  LET key(k) == TimeSeriesConflictKey(rows[k])
      stays == { k \in 1..Len(rows) : \A j \in (k + 1)..Len(rows) : key(j) # key(k) }
  IN { x \in table : \A k \in 1..Len(rows) : TimeSeriesConflictKey(x) # key(k) }
       \cup { rows[k] : k \in stays }

(* ------------------------------------------------------------------ *)
(* State                                                              *)
(* ------------------------------------------------------------------ *)
VARIABLES
  \* configuration (module globals of the script)
  SUPABASE_URL, SUPABASE_SERVICE_ROLE, QUERY_MODE, TRACKED_DISEASES,
  BATCH_SIZE, MAX_RETRIES,
  \* the environment: the texts of the errors the provider and the sink
  \* raise, the provider's plan per query unit, whether the sink may fail
  messages, provider_plan, sink_plan,
  \* collect_all_trends: position and locals
  pc, now, collection_date,
  supabase,            \* the sink client: "none" until create_supabase_client
  pytrends,            \* the provider session in use: 0 until the first
                       \* create_pytrends_client, then the number of sessions created
  \* the sink's google_trends table, a set of rows
  google_trends,
  total_records, total_region_records, successful, failed,
  i, batch_num, idx, retries, success, exit_code,
  \* history of the current query unit
  attempts,            \* attempts made for it so far
  delays,              \* the retry delays computed for it, in order
  \* history of the run
  planned,             \* the query units entered so far, in order
  attempted,           \* units with at least one attempt
  succeeded_units,     \* units that reached Succeeded (success = True)
  exhausted_units,     \* units that reached Exhausted (the "Failed after" branch)
  retrying,            \* Retrying transitions taken: failed attempts followed by a retry
  attempts_total,      \* iterations of the while loops executed, over all units
  last                 \* the most recent attempt

config_vars == << SUPABASE_URL, SUPABASE_SERVICE_ROLE, QUERY_MODE, TRACKED_DISEASES,
                  BATCH_SIZE, MAX_RETRIES >>
counter_vars == << total_records, total_region_records, successful, failed >>
loop_vars == << i, batch_num, idx, retries, success >>
env_vars == << messages, provider_plan, sink_plan >>
client_vars == << supabase, pytrends >>
sink_vars == << google_trends >>
unit_hist_vars == << attempts, delays >>
run_hist_vars == << attempted, succeeded_units, exhausted_units, retrying, attempts_total,
                   last >>
vars == << config_vars, env_vars, pc, now, collection_date, client_vars, sink_vars,
           counter_vars, loop_vars, exit_code, unit_hist_vars, planned, run_hist_vars >>

\* `last` before the first attempt; `today` is the date of the attempt,
\* `session` the provider session its calls were issued on, `answer` what
\* the provider did in it.
NoAttempt ==
  [unit |-> 0, attempt |-> 0, session |-> 0, raised |-> FALSE, source |-> "none",
   error_msg |-> << >>, is_rate_limit |-> FALSE, retried |-> FALSE, delay |-> 0, trace |-> << >>,
   today |-> 0, answer |-> << >>, query |-> << >>, validated |-> << >>,
   cutoff_date |-> NoCutoff,
   handed_ts |-> << >>, handed_rg |-> << >>, sent_ts |-> << >>, sent_rg |-> << >>,
   stored_ts |-> << >>]

(* ------------------------------------------------------------------ *)
(* The query units                                                    *)
(* ------------------------------------------------------------------ *)
\* `batch = TRACKED_DISEASES[i:i + BATCH_SIZE]`
BatchAtOverlapping(catalog, start, size) == Slice(catalog, start, start + size + 1)

BatchAt(catalog, start, size) == Slice(catalog, start, start + size)

\* range(0, len(TRACKED_DISEASES), BATCH_SIZE): its value in iteration k + 1
\* (k iterations done), and whether there is one.
RangeValue(k, size) == k * size

RangeHasNext(k, len, size) == RangeValue(k, size) < len

Comparative == QUERY_MODE = "comparative"

NumUnits(catalog, size) == (Len(catalog) + size - 1) \div size

NUnits == IF Comparative THEN NumUnits(TRACKED_DISEASES, BATCH_SIZE)
          ELSE Len(TRACKED_DISEASES)

CurUnit == IF Comparative THEN batch_num ELSE idx

CurTerms == IF Comparative THEN BatchAt(TRACKED_DISEASES, i, BATCH_SIZE)
            ELSE << TRACKED_DISEASES[idx] >>

(* ------------------------------------------------------------------ *)
(* validate_environment                                               *)
(* ------------------------------------------------------------------ *)
EnvironmentValidUrlOnly == SUPABASE_URL # ""

EnvironmentValid == SUPABASE_URL # "" /\ SUPABASE_SERVICE_ROLE # ""

(* ------------------------------------------------------------------ *)
(* The retry loop: pieces shared by the two modes' loops              *)
(* ------------------------------------------------------------------ *)
\* `while retries < MAX_RETRIES and not success`
WhileCondOffByOne(r, s) == r <= MAX_RETRIES /\ ~s

WhileCondGivingUpEarly(r, s) == r < MAX_RETRIES - 1 /\ ~s

WhileCondUntilSuccess(r, s) == ~s

WhileCond(r, s) == r < MAX_RETRIES /\ ~s

\* The sink's behaviours in one attempt of a unit of n terms.
SinkBehaviours(plan, n, texts) ==
  { [at |-> 0, error_msg |-> << >>] }
  \cup (IF plan = "reliable" THEN {} ELSE [at : 1..(2 * n), error_msg : texts])

\* Individual mode: the delay of a retry, `retries` already incremented.
RetryDelayIndividualNoMinusOne(is_rate_limit, r) ==
  IF is_rate_limit THEN DELAY_ON_RATE_LIMIT * Pow2(r) ELSE DELAY_ON_ERROR

RetryDelayIndividualEscalating(is_rate_limit, r) ==
  IF is_rate_limit THEN DELAY_ON_RATE_LIMIT * Pow2(r - 1) ELSE DELAY_ON_ERROR * Pow2(r - 1)

RetryDelayIndividual(is_rate_limit, r) ==
  IF is_rate_limit THEN DELAY_ON_RATE_LIMIT * Pow2(r - 1) ELSE DELAY_ON_ERROR

\* Comparative mode: the delay of a retry, `retries` already incremented.
RetryDelayBatchNoBackoff(is_rate_limit, r) ==
  IF is_rate_limit THEN DELAY_ON_RATE_LIMIT ELSE DELAY_ON_ERROR

RetryDelayBatch(is_rate_limit, r) ==
  IF is_rate_limit THEN DELAY_ON_RATE_LIMIT * Pow2(r - 1) ELSE DELAY_ON_ERROR

\* The except clause: [retries, is_rate_limit, retried, delay, trace].
ExceptClauseWithoutPause(is_rate_limit, delay, r) ==
  [retries |-> r, is_rate_limit |-> is_rate_limit,
   retried |-> r < MAX_RETRIES,
   delay |-> IF r < MAX_RETRIES THEN delay ELSE 0,
   trace |-> IF r < MAX_RETRIES
             THEN << Ev("create_pytrends_client", 0) >>
             ELSE << >>]

ExceptClause(is_rate_limit, delay, r) ==
  [retries |-> r, is_rate_limit |-> is_rate_limit,
   retried |-> r < MAX_RETRIES,
   delay |-> IF r < MAX_RETRIES THEN delay ELSE 0,
   trace |-> IF r < MAX_RETRIES
             THEN << Sleep(delay), Ev("create_pytrends_client", 0) >>
             ELSE << >>]

ExceptIndividual(error_msg, r) ==
  ExceptClause(IsRateLimitIndividual(error_msg),
               RetryDelayIndividual(IsRateLimitIndividual(error_msg), r + 1), r + 1)

ExceptBatch(error_msg, r) ==
  ExceptClause(IsRateLimitBatch(error_msg),
               RetryDelayBatch(IsRateLimitBatch(error_msg), r + 1), r + 1)

\* `pytrends = create_pytrends_client()` in the `if retries < MAX_RETRIES`
\* branch of the except clause: the session in use after the clause.
SessionAfterExceptKept(session, retried) == session

SessionAfterExcept(session, retried) == IF retried THEN session + 1 ELSE session

\* Where control goes after the except clause: back to the loop test.
AfterExceptAbortOnExhaustion(r) == IF r < MAX_RETRIES THEN "while" ELSE "raised"

AfterExcept(r) == "while"

(* ------------------------------------------------------------------ *)
(* The try block, individual mode                                     *)
(* ------------------------------------------------------------------ *)
\* The collection_date argument of the collect calls: the local assigned
\* once, before the loop.
CollectionDateArgumentAtCall(run_collection_date, today) == today

CollectionDateArgument(run_collection_date, today) == run_collection_date

\* What one pass through the try block leaves behind: whether it raised, in
\* which collaborator, the error text, the counters, `success`, the events.
TryIndividual(answer, sink, disease) ==
  LET c == collect_all_data_for_disease(answer, disease,
                                         CollectionDateArgument(collection_date, now), now)
      ts == c.time_series_records
      rg == c.region_records
      u1 == upload_to_supabase(ts, 0, sink.at)
      u2 == upload_region_records_to_supabase(rg, u1.calls, sink.at)
      base == [raised |-> TRUE, source |-> "provider", error_msg |-> c.error_msg,
               total_records |-> total_records,
               total_region_records |-> total_region_records,
               successful |-> successful, success |-> FALSE,
               answer |-> answer, query |-> c.query, validated |-> c.validated,
               cutoff_date |-> c.cutoff_date,
               handed_ts |-> << >>, handed_rg |-> << >>,
               sent_ts |-> << >>, sent_rg |-> << >>,
               stored_ts |-> << >>, stored_rg |-> << >>,
               trace |-> c.trace]
  IN IF c.raised THEN base
     ELSE IF u1.raised
     THEN [base EXCEPT !.source = "sink", !.error_msg = sink.error_msg,
                       !.handed_ts = u1.handed, !.stored_ts = u1.stored,
                       !.sent_ts = u1.sent,
                       !.trace = @ \o u1.trace]
     ELSE IF u2.raised
     THEN [base EXCEPT !.source = "sink", !.error_msg = sink.error_msg,
                       !.total_records = @ + Len(ts),
                       !.handed_ts = u1.handed, !.stored_ts = u1.stored,
                       !.handed_rg = u2.handed, !.stored_rg = u2.stored,
                       !.sent_ts = u1.sent, !.sent_rg = u2.sent,
                       !.trace = @ \o u1.trace \o u2.trace]
     ELSE [base EXCEPT !.raised = FALSE, !.source = "none", !.error_msg = << >>,
                       !.total_records = @ + Len(ts),
                       !.total_region_records = @ + Len(rg),
                       !.successful = @ + 1, !.success = TRUE,
                       !.handed_ts = u1.handed, !.stored_ts = u1.stored,
                       !.handed_rg = u2.handed, !.stored_rg = u2.stored,
                       !.sent_ts = u1.sent, !.sent_rg = u2.sent,
                       !.trace = @ \o u1.trace \o u2.trace
                                   \o (IF idx < Len(TRACKED_DISEASES)
                                       THEN << Sleep(DELAY_BETWEEN_REQUESTS) >>
                                       ELSE << >>)]

(* ------------------------------------------------------------------ *)
(* The try block, comparative mode                                    *)
(* ------------------------------------------------------------------ *)
\* `for disease in batch:` from its k-th element on, acc the state so far.
RECURSIVE UploadBatch(_, _, _, _, _)
UploadBatch(batch, k, c, sink, acc) ==
  IF k > Len(batch) \/ acc.raised THEN acc
  ELSE LET disease == batch[k]
           ts == c.time_series_dict[disease]
           rg == c.region_dict[disease]
           u1 == upload_to_supabase(ts, acc.calls, sink.at)
           u2 == upload_region_records_to_supabase(rg, u1.calls, sink.at)
           got == IF ts # << >> \/ rg # << >> THEN 1 ELSE 0
       IN IF u1.raised
          THEN [acc EXCEPT !.raised = TRUE,
                           !.handed_ts = @ \o u1.handed, !.stored_ts = @ \o u1.stored,
                           !.sent_ts = @ \o u1.sent,
                           !.trace = @ \o u1.trace]
          ELSE IF u2.raised
          THEN [acc EXCEPT !.raised = TRUE, !.total_records = @ + Len(ts),
                           !.handed_ts = @ \o u1.handed, !.stored_ts = @ \o u1.stored,
                           !.handed_rg = @ \o u2.handed, !.stored_rg = @ \o u2.stored,
                           !.sent_ts = @ \o u1.sent, !.sent_rg = @ \o u2.sent,
                           !.trace = @ \o u1.trace \o u2.trace]
          ELSE UploadBatch(batch, k + 1, c, sink,
                 [acc EXCEPT !.total_records = @ + Len(ts),
                             !.total_region_records = @ + Len(rg),
                             !.batch_success = @ + got,
                             !.successful = @ + got,
                             !.calls = u2.calls,
                             !.handed_ts = @ \o u1.handed, !.stored_ts = @ \o u1.stored,
                             !.handed_rg = @ \o u2.handed, !.stored_rg = @ \o u2.stored,
                             !.sent_ts = @ \o u1.sent, !.sent_rg = @ \o u2.sent,
                             !.trace = @ \o u1.trace \o u2.trace])

\* `if batch_success > 0: success = True` / `else: ... success = True`
SuccessOfBatchRetryingEmpty(batch_success) == batch_success > 0

SuccessOfBatch(batch_success) == IF batch_success > 0 THEN TRUE ELSE TRUE

TryBatch(answer, sink, batch) ==
  LET c == collect_data_for_batch(answer, batch,
                                   CollectionDateArgument(collection_date, now), now)
      base == [raised |-> TRUE, source |-> "provider", error_msg |-> c.error_msg,
               total_records |-> total_records,
               total_region_records |-> total_region_records,
               successful |-> successful, success |-> FALSE,
               answer |-> answer, query |-> c.query, validated |-> c.validated,
               cutoff_date |-> c.cutoff_date,
               handed_ts |-> << >>, handed_rg |-> << >>,
               sent_ts |-> << >>, sent_rg |-> << >>,
               stored_ts |-> << >>, stored_rg |-> << >>,
               trace |-> c.trace]
      up == UploadBatch(batch, 1, c, sink,
              [raised |-> FALSE, total_records |-> total_records,
               total_region_records |-> total_region_records,
               successful |-> successful, batch_success |-> 0,
               calls |-> 0,
               handed_ts |-> << >>, handed_rg |-> << >>,
               sent_ts |-> << >>, sent_rg |-> << >>,
               stored_ts |-> << >>, stored_rg |-> << >>,
               trace |-> << >>])
      uploaded == [base EXCEPT !.total_records = up.total_records,
                               !.total_region_records = up.total_region_records,
                               !.successful = up.successful,
                               !.handed_ts = up.handed_ts, !.stored_ts = up.stored_ts,
                               !.handed_rg = up.handed_rg, !.stored_rg = up.stored_rg,
                               !.sent_ts = up.sent_ts, !.sent_rg = up.sent_rg,
                               !.trace = @ \o up.trace]
  IN IF c.raised THEN base
     ELSE IF up.raised
     THEN [uploaded EXCEPT !.source = "sink", !.error_msg = sink.error_msg]
     ELSE [uploaded EXCEPT !.raised = FALSE, !.source = "none", !.error_msg = << >>,
                           !.success = SuccessOfBatch(up.batch_success),
                           !.trace = @ \o (IF i + BATCH_SIZE < Len(TRACKED_DISEASES)
                                           THEN << Sleep(DELAY_BETWEEN_REQUESTS) >>
                                           ELSE << >>)]

\* `failed += len(batch)` and `failed += 1`
FailedIncrementBatchOne(batch) == 1

FailedIncrementBatch(batch) == Len(batch)

FailedIncrementIndividual == 1

\* The exit status of the process after the summary.
ExitStatus(successful_count, failed_count) ==
  IF successful_count = 0 THEN 1 ELSE 0

(* ------------------------------------------------------------------ *)
(* Initial states                                                     *)
(* ------------------------------------------------------------------ *)
Catalog(n) == SubSeq(CatalogPool, 1, n)

\* The state of the process when collect_all_trends is called.
Fresh ==
  /\ pc = "start"
  /\ now = TodayStart
  /\ collection_date = 0
  /\ total_records = 0 /\ total_region_records = 0 /\ successful = 0 /\ failed = 0
  /\ i = 0 /\ batch_num = 0 /\ idx = 0 /\ retries = 0 /\ success = FALSE
  /\ exit_code = -1
  /\ supabase = "none" /\ pytrends = 0
  /\ attempts = 0 /\ delays = << >>
  /\ planned = << >>
  /\ attempted = {} /\ succeeded_units = {} /\ exhausted_units = {}
  /\ retrying = 0
  /\ attempts_total = 0
  /\ last = NoAttempt

\* The configurations with at most `units` query units of at most `size` terms.
Configured(units, size) ==
  /\ MAX_RETRIES \in 1..MaxRetriesBound
  /\ \/ /\ QUERY_MODE = "individual"
        /\ BATCH_SIZE = DEFAULT_BATCH_SIZE
        /\ TRACKED_DISEASES \in { Catalog(n) : n \in 1..units }
     \/ /\ QUERY_MODE = "comparative"
        /\ BATCH_SIZE \in 1..size
        /\ TRACKED_DISEASES \in { Catalog(n) : n \in 1..(units * BATCH_SIZE) }

\* Any run: the provider and the sink may fail at any call.
Init ==
  /\ SUPABASE_URL \in {"", "https://project.supabase.co"}
  /\ SUPABASE_SERVICE_ROLE \in {"", "service-role-key"}
  /\ Configured(MaxUnits, MaxBatch)
  /\ Len(TRACKED_DISEASES) * MAX_RETRIES <= MaxTermAttempts
  /\ messages = RunMessages
  /\ provider_plan = [u \in 1..NUnits |-> "any"]
  /\ sink_plan = "any"
  /\ google_trends = {}
  /\ Fresh

\* Runs against a provider that, per query unit, is either rate-limited for
\* the whole unit or returns data, with a sink that does not fail.
InitPlanned ==
  /\ SUPABASE_URL = "https://project.supabase.co"
  /\ SUPABASE_SERVICE_ROLE = "service-role-key"
  /\ Configured(MaxScenarioUnits, MaxScenarioBatch)
  /\ messages = RunMessages
  /\ provider_plan \in [1..NUnits -> {"rate_limited", "data", "two_point"}]
  /\ sink_plan = "reliable"
  /\ google_trends = {}
  /\ Fresh

(* ------------------------------------------------------------------ *)
(* Actions                                                            *)
(* ------------------------------------------------------------------ *)
\* collect_all_trends up to the mode switch: validate_environment (which
\* raises when a credential is missing), the two clients, collection_date.
Start ==
  /\ pc = "start"
  /\ IF EnvironmentValid
     THEN /\ pc' = "for"
          /\ supabase' = "client"
          /\ pytrends' = 1
          /\ collection_date' = now
          /\ exit_code' = exit_code
     ELSE /\ pc' = "raised"
          /\ UNCHANGED client_vars
          /\ collection_date' = collection_date
          /\ exit_code' = 1
  /\ UNCHANGED << config_vars, env_vars, now, sink_vars, counter_vars, loop_vars,
                  unit_hist_vars, planned, run_hist_vars >>

\* `retries = 0` at the top of the body of the for loop; `r` is the counter
\* as the unit before left it.
RetriesCarriedOver(r) == r

RetriesAtUnitStart(r) == 0

EnterUnit(terms) ==
  /\ pc' = "while"
  /\ retries' = RetriesAtUnitStart(retries)
  /\ success' = FALSE
  /\ planned' = Append(planned, terms)
  /\ attempts' = 0
  /\ delays' = << >>

LeaveLoop ==
  /\ pc' = "summary"
  /\ UNCHANGED << loop_vars, unit_hist_vars, planned >>

\* Individual mode: `for idx, disease in enumerate(TRACKED_DISEASES, 1)`.
NextDisease ==
  /\ pc = "for"
  /\ ~Comparative
  /\ IF idx < Len(TRACKED_DISEASES)
     THEN /\ idx' = idx + 1
          /\ EnterUnit(<< TRACKED_DISEASES[idx + 1] >>)
          /\ UNCHANGED << i, batch_num >>
     ELSE LeaveLoop
  /\ UNCHANGED << config_vars, env_vars, now, collection_date, client_vars, sink_vars,
                  counter_vars, exit_code, run_hist_vars >>

\* Comparative mode: `for i in range(0, len(TRACKED_DISEASES), BATCH_SIZE)`.
NextBatch ==
  /\ pc = "for"
  /\ Comparative
  /\ IF RangeHasNext(batch_num, Len(TRACKED_DISEASES), BATCH_SIZE)
     THEN /\ i' = RangeValue(batch_num, BATCH_SIZE)
          /\ batch_num' = batch_num + 1
          /\ EnterUnit(BatchAt(TRACKED_DISEASES, RangeValue(batch_num, BATCH_SIZE), BATCH_SIZE))
          /\ UNCHANGED idx
     ELSE LeaveLoop
  /\ UNCHANGED << config_vars, env_vars, now, collection_date, client_vars, sink_vars,
                  counter_vars, exit_code, run_hist_vars >>

\* The while test fails: on to the next iteration of the for loop.
WhileExit ==
  /\ pc = "while"
  /\ ~WhileCond(retries, success)
  /\ pc' = "for"
  /\ UNCHANGED << config_vars, env_vars, now, collection_date, client_vars, sink_vars,
                  counter_vars, loop_vars, exit_code, unit_hist_vars, planned, run_hist_vars >>

\* One iteration of the while loop: the try block `t`, then -- when it
\* raised -- the except clause `h`; `inc` is what an exhausted unit adds to
\* `failed`.
Iteration(t, h, inc) ==
  LET exhausted == t.raised /\ ~h.retried
  IN
  /\ total_records' = t.total_records
  /\ total_region_records' = t.total_region_records
  /\ successful' = t.successful
  /\ success' = t.success
  /\ retries' = IF t.raised THEN h.retries ELSE retries
  /\ failed' = IF exhausted THEN failed + inc ELSE failed
  /\ pc' = IF t.raised THEN AfterExcept(h.retries) ELSE "while"
  /\ exit_code' = IF pc' = "raised" THEN 1 ELSE exit_code
  /\ attempts' = attempts + 1
  /\ delays' = IF t.raised /\ h.retried THEN Append(delays, h.delay) ELSE delays
  /\ attempted' = attempted \cup { CurUnit }
  /\ succeeded_units' = IF t.success THEN succeeded_units \cup { CurUnit }
                        ELSE succeeded_units
  /\ exhausted_units' = IF exhausted THEN exhausted_units \cup { CurUnit }
                        ELSE exhausted_units
  /\ retrying' = IF t.raised /\ h.retried THEN retrying + 1 ELSE retrying
  /\ attempts_total' = attempts_total + 1
  /\ last' = [unit |-> CurUnit, attempt |-> attempts + 1, session |-> pytrends,
              raised |-> t.raised,
              source |-> t.source, error_msg |-> t.error_msg,
              is_rate_limit |-> t.raised /\ h.is_rate_limit,
              retried |-> t.raised /\ h.retried,
              delay |-> IF t.raised THEN h.delay ELSE 0,
              trace |-> t.trace \o (IF t.raised THEN h.trace ELSE << >>),
              today |-> now, answer |-> t.answer, query |-> t.query,
              validated |-> t.validated, cutoff_date |-> t.cutoff_date,
              handed_ts |-> t.handed_ts, handed_rg |-> t.handed_rg,
              sent_ts |-> t.sent_ts, sent_rg |-> t.sent_rg,
              stored_ts |-> t.stored_ts]
  /\ pytrends' = IF t.raised THEN SessionAfterExcept(pytrends, h.retried) ELSE pytrends
  /\ google_trends' = UpsertTimeSeries(google_trends, t.stored_ts)
  /\ UNCHANGED << config_vars, env_vars, now, collection_date, supabase,
                  i, batch_num, idx, planned >>

\* Individual mode: one iteration of `while retries < MAX_RETRIES and not success`.
IndividualAttempt ==
  /\ pc = "while"
  /\ ~Comparative
  /\ WhileCond(retries, success)
  /\ \E answer \in PlannedAnswers(provider_plan[idx], CurTerms, messages),
        sink \in SinkBehaviours(sink_plan, 1, messages) :
       Iteration(TryIndividual(answer, sink, TRACKED_DISEASES[idx]),
                 ExceptIndividual(TryIndividual(answer, sink, TRACKED_DISEASES[idx]).error_msg,
                                  retries),
                 FailedIncrementIndividual)

\* Comparative mode: one iteration of `while retries < MAX_RETRIES and not success`.
BatchAttempt ==
  /\ pc = "while"
  /\ Comparative
  /\ WhileCond(retries, success)
  /\ \E answer \in PlannedAnswers(provider_plan[batch_num], CurTerms, messages),
        sink \in SinkBehaviours(sink_plan, Len(CurTerms), messages) :
       Iteration(TryBatch(answer, sink, CurTerms),
                 ExceptBatch(TryBatch(answer, sink, CurTerms).error_msg, retries),
                 FailedIncrementBatch(CurTerms))

\* The summary and the exit status.
Summary ==
  /\ pc = "summary"
  /\ pc' = "done"
  /\ exit_code' = ExitStatus(successful, failed)
  /\ UNCHANGED << config_vars, env_vars, now, collection_date, client_vars, sink_vars,
                  counter_vars, loop_vars, unit_hist_vars, planned, run_hist_vars >>

Next ==
  \/ Start
  \/ NextDisease
  \/ NextBatch
  \/ WhileExit
  \/ IndividualAttempt
  \/ BatchAttempt
  \/ Summary

Spec == Init /\ [][Next]_vars

\* Any pattern of provider and sink failures, against a provider that returns
\* the same data whenever it does not fail; the sink is taken not to fail in a
\* comparative run whose batches have several terms.
InitLive ==
  /\ SUPABASE_URL \in {"", "https://project.supabase.co"}
  /\ SUPABASE_SERVICE_ROLE \in {"", "service-role-key"}
  /\ Configured(MaxUnits, MaxBatch)
  /\ Len(TRACKED_DISEASES) * MAX_RETRIES <= MaxTermAttempts
  /\ messages = RunMessages
  /\ provider_plan = [u \in 1..NUnits |-> "plain"]
  /\ sink_plan = IF Comparative /\ BATCH_SIZE > 1 THEN "reliable" ELSE "any"
  /\ google_trends = {}
  /\ Fresh

\* The script is one sequential process: it keeps executing until it exits.
FairSpec == InitLive /\ [][Next]_vars /\ WF_vars(Next)

SpecPlanned == InitPlanned /\ [][Next]_vars

\* Runs past the validation of the environment, of up to three terms taken
\* one by one or in batches of two, in which the provider and the sink may
\* fail at any call of any attempt.
InitFailures ==
  /\ SUPABASE_URL = "https://project.supabase.co"
  /\ SUPABASE_SERVICE_ROLE = "service-role-key"
  /\ MAX_RETRIES \in {1, 2}
  /\ QUERY_MODE \in {"individual", "comparative"}
  /\ BATCH_SIZE = 2
  /\ TRACKED_DISEASES \in { Catalog(1), Catalog(2), Catalog(3) }
  /\ messages = RunMessages
  /\ provider_plan = [u \in 1..NUnits |-> "plain"]
  /\ sink_plan = "any"
  /\ google_trends = {}
  /\ Fresh

FairSpecFailures == InitFailures /\ [][Next]_vars /\ WF_vars(Next)

\* Runs of one query unit in which the errors carry texts with and without
\* the rate-limit signatures, in several spellings.
SignatureCores ==
  { << "4","2","9" >>,
    << "4","2" >>,
    << "r","a","t","e"," ","l","i","m","i","t" >>,
    << "R","a","t","e"," ","L","i","m","i","t" >>,
    << "R","A","T","E"," ","L","I","M","I","T" >>,
    << "r","a","t","e"," "," ","l","i","m","i","t" >>,
    << "r","a","t","e","l","i","m","i","t" >>,
    << "t","o","o"," ","m","a","n","y"," ","r","e","q","u","e","s","t","s" >>,
    << "T","o","o"," ","M","a","n","y"," ","R","e","q","u","e","s","t","s" >>,
    << "T","O","O"," ","M","A","N","Y"," ","R","E","Q","U","E","S","T","S" >>,
    << "t","o","o"," ","m","a","n","y"," ","r","e","q","u","e","s","t" >>,
    << "t","i","m","e","d"," ","o","u","t" >>,
    << >> }
TextPrefixes == { << >>, << "H","T","T","P"," " >> }
TextSuffixes == { << >>, << " ","e","r","r","o","r" >> }
ClassifyTexts == { p \o c \o x : p \in TextPrefixes, c \in SignatureCores, x \in TextSuffixes }

InitClassify ==
  /\ SUPABASE_URL = "https://project.supabase.co"
  /\ SUPABASE_SERVICE_ROLE = "service-role-key"
  /\ MAX_RETRIES = 1
  /\ QUERY_MODE \in {"individual", "comparative"}
  /\ BATCH_SIZE = DEFAULT_BATCH_SIZE
  /\ TRACKED_DISEASES = Catalog(1)
  /\ messages = ClassifyTexts
  /\ provider_plan = [u \in 1..NUnits |-> "any"]
  /\ sink_plan = "any"
  /\ google_trends = {}
  /\ Fresh

SpecClassify == InitClassify /\ [][Next]_vars

\* Comparative runs over the prefixes of the source's catalog, against a
\* provider that returns data and a sink that does not fail.
InitPartition ==
  /\ SUPABASE_URL = "https://project.supabase.co"
  /\ SUPABASE_SERVICE_ROLE = "service-role-key"
  /\ MAX_RETRIES = 1
  /\ QUERY_MODE = "comparative"
  /\ BATCH_SIZE \in 1..MaxPlanBatch
  /\ TRACKED_DISEASES \in { SubSeq(SourceCatalog, 1, n) : n \in 0..Len(SourceCatalog) }
  /\ messages = RunMessages
  /\ provider_plan = [u \in 1..NUnits |-> "two_point"]
  /\ sink_plan = "reliable"
  /\ google_trends = {}
  /\ Fresh

NextComparative ==
  \/ Start
  \/ NextBatch
  \/ WhileExit
  \/ BatchAttempt
  \/ Summary

SpecPartition == InitPartition /\ [][NextComparative]_vars

\* The date changes while the run is in progress.
Tick ==
  /\ pc \notin {"done", "raised"}
  /\ now < TodayStart + MaxDaysElapsed
  /\ now' = now + 1
  /\ UNCHANGED << config_vars, env_vars, pc, collection_date, client_vars, sink_vars,
                  counter_vars, loop_vars, exit_code, unit_hist_vars, planned, run_hist_vars >>

\* Runs during which the date may change, against a provider that fails or
\* returns a series reaching up to the day the run starts.
InitClock ==
  /\ SUPABASE_URL = "https://project.supabase.co"
  /\ SUPABASE_SERVICE_ROLE = "service-role-key"
  /\ Configured(MaxUnits, MaxScenarioBatch)
  /\ Len(TRACKED_DISEASES) * MAX_RETRIES <= MaxTermAttempts
  /\ messages = RunMessages
  /\ provider_plan = [u \in 1..NUnits |-> "dated"]
  /\ sink_plan = "reliable"
  /\ google_trends = {}
  /\ Fresh

NextClock ==
  \/ Start
  \/ NextDisease
  \/ NextBatch
  \/ WhileExit
  \/ IndividualAttempt
  \/ BatchAttempt
  \/ Summary
  \/ Tick

SpecClock == InitClock /\ [][NextClock]_vars

\* The configurations of at most `size` terms with one retry at most: the
\* terms one by one, or all of them in one batch.
ConfiguredSmall(size) ==
  /\ MAX_RETRIES \in {1, 2}
  /\ QUERY_MODE \in {"individual", "comparative"}
  /\ BATCH_SIZE = size
  /\ TRACKED_DISEASES \in { Catalog(n) : n \in 1..size }

\* Runs against a provider that never fails and returns data of every quality,
\* with a sink that may fail.
InitQuality ==
  /\ SUPABASE_URL = "https://project.supabase.co"
  /\ SUPABASE_SERVICE_ROLE = "service-role-key"
  /\ ConfiguredSmall(MaxScenarioBatch)
  /\ messages = RunMessages
  /\ provider_plan = [u \in 1..NUnits |-> "quality"]
  /\ sink_plan = "any"
  /\ google_trends = {}
  /\ Fresh

SpecQuality == InitQuality /\ [][Next]_vars

\* Rows an earlier run left in the google_trends table.
PriorRows ==
  { [disease |-> "covid", date |-> TodayStart - EXCLUDE_RECENT_DAYS, interest_value |-> 55],
    [disease |-> "polio", date |-> TodayStart - EXCLUDE_RECENT_DAYS, interest_value |-> 3] }

\* Runs that write to a table an earlier run may have filled, against a
\* provider whose values for a day change from one query to the next.
InitStore ==
  /\ SUPABASE_URL = "https://project.supabase.co"
  /\ SUPABASE_SERVICE_ROLE = "service-role-key"
  /\ ConfiguredSmall(MaxScenarioBatch)
  /\ messages = RunMessages
  /\ provider_plan = [u \in 1..NUnits |-> "revised"]
  /\ sink_plan = "any"
  /\ google_trends \in { {}, PriorRows }
  /\ Fresh

SpecStore == InitStore /\ [][Next]_vars

\* Runs of one query unit against a provider that returns one region, of any
\* name.
InitRegions ==
  /\ SUPABASE_URL = "https://project.supabase.co"
  /\ SUPABASE_SERVICE_ROLE = "service-role-key"
  /\ MAX_RETRIES = 1
  /\ QUERY_MODE \in {"individual", "comparative"}
  /\ BATCH_SIZE = DEFAULT_BATCH_SIZE
  /\ TRACKED_DISEASES = Catalog(1)
  /\ messages = RunMessages
  /\ provider_plan = [u \in 1..NUnits |-> "regions"]
  /\ sink_plan = "reliable"
  /\ google_trends = {}
  /\ Fresh

SpecRegions == InitRegions /\ [][Next]_vars

\* Runs of one query unit or two against a provider whose frames have the
\* lengths around the multiples of batch_size, with a sink that may fail.
InitChunks ==
  /\ SUPABASE_URL = "https://project.supabase.co"
  /\ SUPABASE_SERVICE_ROLE = "service-role-key"
  /\ MAX_RETRIES = 1
  /\ QUERY_MODE \in {"individual", "comparative"}
  /\ BATCH_SIZE = DEFAULT_BATCH_SIZE
  /\ TRACKED_DISEASES \in { Catalog(1), Catalog(2) }
  /\ messages = RunMessages
  /\ provider_plan = [u \in 1..NUnits |-> "bulk"]
  /\ sink_plan = "any"
  /\ google_trends = {}
  /\ Fresh

SpecChunks == InitChunks /\ [][Next]_vars

\* Runs of one query unit or two, one attempt each, against a provider that
\* returns frames of every shape, while the date may change; the sink does
\* not fail.
InitFrames ==
  /\ SUPABASE_URL = "https://project.supabase.co"
  /\ SUPABASE_SERVICE_ROLE = "service-role-key"
  /\ MAX_RETRIES = 1
  /\ QUERY_MODE \in {"individual", "comparative"}
  /\ BATCH_SIZE \in {1, 2}
  /\ TRACKED_DISEASES \in { Catalog(1), Catalog(2) }
  /\ messages = RunMessages
  /\ provider_plan = [u \in 1..NUnits |-> "frames"]
  /\ sink_plan = "reliable"
  /\ google_trends = {}
  /\ Fresh

SpecFrames == InitFrames /\ [][NextClock]_vars

(* ------------------------------------------------------------------ *)
(* Properties                                                         *)
(* ------------------------------------------------------------------ *)
Units == 1..NUnits

RateLimitedUnits == { u \in Units : provider_plan[u] = "rate_limited" }

DataUnits == { u \in Units : provider_plan[u] \in {"data", "two_point"} }

\* C1, as stated: with MAX_RETRIES = 3, a unit whose every attempt is
\* rate-limited by the provider is attempted exactly 3 times, is then
\* Exhausted, and the delays computed for it are base, base*2, base*4.
C1_ThreeDelays ==
  \A u \in RateLimitedUnits :
    (MAX_RETRIES = 3 /\ u = CurUnit /\ u \in exhausted_units)
      => /\ attempts = 3
         /\ delays = << DELAY_ON_RATE_LIMIT, DELAY_ON_RATE_LIMIT * 2, DELAY_ON_RATE_LIMIT * 4 >>

\* C1, amended: with MAX_RETRIES = 3, a unit whose every attempt is
\* rate-limited by the provider never succeeds, is Exhausted when the loop
\* leaves it, has then been attempted exactly 3 times, and the delays computed
\* for it are base, base*2: one per retry, none after the last attempt.
C1_TwoDelays ==
  \A u \in RateLimitedUnits :
    MAX_RETRIES = 3
      => /\ u \notin succeeded_units
         /\ (u = CurUnit => attempts <= 3)
         /\ (u = CurUnit /\ pc = "for" => u \in exhausted_units)
         /\ (u < CurUnit => u \in exhausted_units)
         /\ (u = CurUnit /\ u \in exhausted_units)
              => /\ attempts = 3
                 /\ delays = << DELAY_ON_RATE_LIMIT, DELAY_ON_RATE_LIMIT * 2 >>

C1_Witness ==
  /\ MAX_RETRIES = 3
  /\ CurUnit \in RateLimitedUnits
  /\ CurUnit \in exhausted_units
  /\ attempts = 3
  /\ Len(delays) = 2

\* C2: a unit that exhausts its retries never aborts the run: once unit k is
\* Exhausted, the run goes on to its summary and exit, and by then every
\* later unit has been attempted at least once.
C2_ExhaustionNeverAborts ==
  (exhausted_units # {})
    ~> (pc = "done" /\ \A k \in exhausted_units : \A j \in Units : j > k => j \in attempted)

C2_Witness ==
  /\ pc = "done"
  /\ \E k \in exhausted_units : k < NUnits /\ \A j \in Units : j > k => j \in attempted

\* C3: in both modes the process exits non-zero if and only if no query unit
\* reached Succeeded.
C3_ExitIffNoUnitSucceeded ==
  pc = "done" => (exit_code # 0 <=> succeeded_units = {})

\* C4: the scenario -- a comparative run of exactly 3 units, the provider
\* rate-limited on every attempt of one of them and returning data for the
\* other two, the sink not failing.
C4_Scenario ==
  /\ Comparative
  /\ NUnits = 3
  /\ sink_plan = "reliable"
  /\ Cardinality(RateLimitedUnits) = 1
  /\ Cardinality(DataUnits) = 2

C5_Scenario ==
  /\ ~Comparative
  /\ TRACKED_DISEASES = << "covid", "ebola" >>
  /\ sink_plan = "reliable"
  /\ \A u \in Units : provider_plan[u] = "two_point"

\* C5: in the scenario both units succeed on their first attempt and the run
\* reports 2 succeeded, 0 failed, 4 time-series points written and exits 0.
C5_TwoTermsFourPoints ==
  C5_Scenario
    => /\ attempts <= 1
       /\ ~last.raised
       /\ exhausted_units = {}
       /\ pc = "done"
            => /\ succeeded_units = {1, 2}
               /\ successful = 2
               /\ failed = 0
               /\ total_records = 4
               /\ exit_code = 0

C5_Witness ==
  /\ C5_Scenario
  /\ pc = "done"
  /\ total_records = 4
  /\ successful = 2

\* C6: a unit is attempted at most MAX_RETRIES times, and once it is
\* Exhausted no further attempt -- hence no provider call and no sink write --
\* is made for it.
C6_AttemptsBounded ==
  [][ /\ attempts' <= MAX_RETRIES
      /\ (last' # last => last'.unit \notin exhausted_units) ]_vars

C6_Witness ==
  /\ \E u \in exhausted_units : last.unit > u
  /\ last.attempt = MAX_RETRIES
  /\ last.trace # << >>

\* C7: when a failed attempt is classified rate-limited and it is the k-th
\* attempt of its unit with k < MAX_RETRIES (the earlier k-1 attempts failed,
\* rate-limited or not), the retry sleeps exactly DELAY_ON_RATE_LIMIT * 2^(k-1).
C7_RateLimitBackoff ==
  (last.raised /\ last.is_rate_limit /\ last.attempt < MAX_RETRIES)
    => /\ last.retried
       /\ last.delay = DELAY_ON_RATE_LIMIT * 2^(last.attempt - 1)
       /\ Len(last.trace) >= 2
       /\ last.trace[Len(last.trace) - 1] = Sleep(DELAY_ON_RATE_LIMIT * 2^(last.attempt - 1))

C7_Witness ==
  /\ last.raised /\ last.is_rate_limit
  /\ last.attempt = 2
  /\ last.attempt < MAX_RETRIES
  /\ delays = << DELAY_ON_ERROR, DELAY_ON_RATE_LIMIT * 2 >>

\* C8: when a failed attempt is classified ordinary and a retry follows, the
\* retry sleeps exactly DELAY_ON_ERROR, whatever the number of attempts made
\* and whatever the earlier failures of the unit were.
C8_OrdinaryDelayFixed ==
  (last.raised /\ ~last.is_rate_limit /\ last.retried)
    => /\ last.delay = DELAY_ON_ERROR
       /\ Len(last.trace) >= 2
       /\ last.trace[Len(last.trace) - 1] = Sleep(DELAY_ON_ERROR)

C8_Witness ==
  /\ last.raised /\ ~last.is_rate_limit /\ last.retried
  /\ last.attempt = 2
  /\ delays = << DELAY_ON_RATE_LIMIT, DELAY_ON_ERROR >>

\* Some stretch of the text equals the signature when letter case is ignored.
MatchesIgnoringCase(text, signature) ==
  \E k \in 0..(Len(text) - Len(signature)) :
    \A j \in 1..Len(signature) : UpperChar(text[k + j]) = UpperChar(signature[j])

HasRateLimitSignature(text) ==
  \/ \E k \in 1..(Len(text) - 2) : text[k] = "4" /\ text[k + 1] = "2" /\ text[k + 2] = "9"
  \/ MatchesIgnoringCase(text, TRateLimit)
  \/ MatchesIgnoringCase(text, TTooMany)

\* C9: in both modes a failure is classified rate-limited if and only if its
\* text contains "429", or contains "rate limit" or "too many requests" in any
\* letter case; every other failure is classified ordinary.
C9_Classification ==
  last.raised => (last.is_rate_limit <=> HasRateLimitSignature(last.error_msg))

C9_Witness ==
  /\ ~Comparative
  /\ last.raised /\ last.is_rate_limit
  /\ ~Contains(last.error_msg, T429)
  /\ Lower(last.error_msg) # last.error_msg

\* C10: in comparative mode the query units are consecutive slices of the
\* catalog, each of 1..BATCH_SIZE terms, whose concatenation in processing
\* order is the catalog; there are ceil(n / BATCH_SIZE) of them, and for
\* n = 21, BATCH_SIZE = 5 their sizes are 5,5,5,5,1.
C10_Partition ==
  LET n == Len(TRACKED_DISEASES)
      covered == Flatten(planned)
      sizes == [k \in 1..Len(planned) |-> Len(planned[k])]
  IN Comparative
       => /\ \A k \in 1..Len(planned) : sizes[k] >= 1 /\ sizes[k] <= BATCH_SIZE
          /\ Len(covered) <= n
          /\ covered = SubSeq(TRACKED_DISEASES, 1, Len(covered))
          /\ pc \in {"summary", "done"}
               => /\ covered = TRACKED_DISEASES
                  /\ (Len(planned) - 1) * BATCH_SIZE < n
                  /\ n <= Len(planned) * BATCH_SIZE
                  /\ (n = 21 /\ BATCH_SIZE = 5) => sizes = << 5, 5, 5, 5, 1 >>

C10_Witness ==
  /\ pc = "done"
  /\ Len(TRACKED_DISEASES) = 21
  /\ BATCH_SIZE = 5
  /\ Len(planned) = 5
  /\ Len(planned[5]) = 1

\* The operations of one attempt's trace, in order.
Ops(trace) == [k \in 1..Len(trace) |-> trace[k].op]

\* C11: in individual mode every query built, retries included, is for
\* exactly one term -- the term of its unit; there is one unit per catalog
\* term, and the units are first attempted in catalog order.
C11_OneTermPerQuery ==
  ~Comparative
    => /\ Len(planned) <= Len(TRACKED_DISEASES)
       /\ \A k \in 1..Len(planned) : planned[k] = << TRACKED_DISEASES[k] >>
       /\ attempted = 1..Cardinality(attempted)
       /\ attempted \subseteq 1..Len(planned)
       /\ last.attempt >= 1
            => /\ Len(last.query) = 1
               /\ last.query = planned[last.unit]
               /\ Len(SelectSeq(Ops(last.trace), LAMBDA op : op = "build_payload")) = 1
       /\ pc \in {"summary", "done"}
            => /\ Len(planned) = Len(TRACKED_DISEASES)
               /\ attempted = 1..Len(TRACKED_DISEASES)

C11_Witness ==
  /\ ~Comparative
  /\ last.unit = 2
  /\ last.attempt = 2
  /\ last.query = << TRACKED_DISEASES[2] >>
  /\ 1 \in exhausted_units

\* All the time-series records of a sequence of record lists.
AllRecords(lists) == Flatten(lists)

\* The time-series records an attempt gave to the validator.
ValidatedTimeSeries(attempt) ==
  Flatten([k \in 1..Len(attempt.validated) |-> attempt.validated[k].time_series_records])

\* C12: with partial-day exclusion enabled, no time-series point dated after
\* the cutoff -- the date of the attempt minus EXCLUDE_RECENT_DAYS -- reaches
\* the validator or the sink, in either mode, and a row dated exactly on the
\* cutoff that the provider did not flag partial reaches both.
C12_NothingAfterCutoff ==
  (EXCLUDE_PARTIAL_DATA /\ last.attempt >= 1 /\ last.source # "provider")
    => LET cutoff == last.today - EXCLUDE_RECENT_DAYS
           seen == ValidatedTimeSeries(last)
           sent == AllRecords(last.handed_ts)
       IN /\ \A k \in 1..Len(seen) : seen[k].date <= cutoff
          /\ \A k \in 1..Len(sent) : sent[k].date <= cutoff
          /\ \A x \in google_trends : x.date <= now - EXCLUDE_RECENT_DAYS
          /\ \A j \in 1..Len(last.answer.df_time.rows) :
               LET row == last.answer.df_time.rows[j]
               IN (row.date = cutoff /\ ~IsPartial(last.answer.df_time, row))
                    => \A d \in Range(last.query) \cap last.answer.df_time.columns :
                         LET r == [disease |-> d, date |-> cutoff, interest_value |-> row.val[d]]
                         IN /\ \E k \in 1..Len(seen) : seen[k] = r
                            /\ last.source = "none" => \E k \in 1..Len(sent) : sent[k] = r

C12_Witness ==
  /\ Comparative
  /\ last.source = "none"
  /\ last.today = TodayStart + 1
  /\ last.answer.df_time = DatedFrame(Range(last.query))
  /\ Len(last.query) = 2
  /\ Len(AllRecords(last.handed_ts)) = 6
  /\ \E k \in 1..Len(AllRecords(last.handed_ts)) :
       AllRecords(last.handed_ts)[k].date = last.today - EXCLUDE_RECENT_DAYS

\* C13: every region record handed to the sink carries the run's
\* collection_date, which is the date when the run started and never changes
\* afterwards, whatever the term, the unit and the attempt, also when the date
\* changes while the run is in progress.
C13_OneCollectionDate ==
  /\ [](\A k \in 1..Len(last.handed_rg) : \A j \in 1..Len(last.handed_rg[k]) :
          last.handed_rg[k][j].date = collection_date)
  /\ [][ collection_date' = IF pc = "start" /\ pc' = "for" THEN now ELSE collection_date ]_vars

C13_Witness ==
  /\ last.handed_rg # << >>
  /\ last.today > collection_date
  /\ last.unit = 2
  /\ last.attempt = 2
  /\ last.handed_rg[1][1].date = collection_date

NonEmptyLists(lists) == SelectSeq(lists, LAMBDA l : l # << >>)

IsPrefix(a, b) == Len(a) <= Len(b) /\ a = SubSeq(b, 1, Len(a))

\* C14: validation never blocks or alters storage.  The validator leaves the
\* lists it is given as they were; when the fetch completed, the record lists
\* handed to the sink are the non-empty lists that were validated, in order
\* (all of them when the sink does not fail), and the unit succeeds exactly
\* when nothing raised -- whatever the validator's verdicts were.
C14_ValidationIsDiagnostic ==
  (last.attempt >= 1 /\ last.source # "provider")
    => LET v == last.validated
           ts == NonEmptyLists([k \in 1..Len(v) |-> v[k].time_series_records])
           rg == NonEmptyLists([k \in 1..Len(v) |-> v[k].region_records])
       IN /\ Len(v) = Len(last.query)
          /\ \A k \in 1..Len(v) :
               /\ v[k].after.time_series_records = v[k].time_series_records
               /\ v[k].after.region_records = v[k].region_records
          /\ IsPrefix(last.handed_ts, ts)
          /\ IsPrefix(last.handed_rg, rg)
          /\ last.source = "none"
               => /\ last.handed_ts = ts
                  /\ last.handed_rg = rg
                  /\ last.unit \in succeeded_units
          /\ last.source = "sink" => last.unit \notin succeeded_units

C14_Witness ==
  /\ Comparative
  /\ last.source = "none"
  /\ Len(last.validated) = 2
  /\ last.validated[1].ok
  /\ ~last.validated[2].ok
  /\ Len(last.handed_ts) = 2
  /\ Len(last.handed_rg) = 2
  /\ last.unit \in succeeded_units

\* C15: when SUPABASE_URL or SUPABASE_SERVICE_ROLE is missing the run aborts
\* with an error before it creates a client, calls the provider, writes to
\* the sink or enters a query unit.
C15_ConfigurationErrorFirst ==
  (SUPABASE_URL = "" \/ SUPABASE_SERVICE_ROLE = "")
    => /\ pc \in {"start", "raised"}
       /\ pc = "raised" => exit_code = 1
       /\ supabase = "none"
       /\ pytrends = 0
       /\ last = NoAttempt
       /\ attempted = {}
       /\ planned = << >>
       /\ google_trends = {}
       /\ total_records = 0 /\ total_region_records = 0

C15_Witness ==
  /\ SUPABASE_URL # ""
  /\ SUPABASE_SERVICE_ROLE = ""
  /\ pc = "raised"
  /\ exit_code = 1

\* The key of the time-series store.
TermDate(r) == << r.disease, r.date >>

\* C16: the time-series store holds at most one record per (term, date), and
\* an attempt leaves, for every (term, date) it wrote, exactly the record it
\* wrote last, and every other (term, date) as it was -- on a retry of the
\* unit and over rows of an earlier run alike.
C16_OneRecordPerTermDate ==
  /\ [](\A x \in google_trends : \A y \in google_trends : TermDate(x) = TermDate(y) => x = y)
  /\ [][ last' # last
           => \A key \in { TermDate(x) : x \in google_trends \cup google_trends'
                                               \cup Range(last'.stored_ts) } :
                LET writes == SelectSeq(last'.stored_ts, LAMBDA r : TermDate(r) = key)
                IN { x \in google_trends' : TermDate(x) = key }
                     = IF writes # << >> THEN { writes[Len(writes)] }
                       ELSE { x \in google_trends : TermDate(x) = key } ]_vars

C16_Witness ==
  /\ PriorRows \cap google_trends
       = { [disease |-> "polio", date |-> TodayStart - EXCLUDE_RECENT_DAYS, interest_value |-> 3] }
  /\ last.attempt = 2
  /\ last.unit = 1
  /\ total_records > Len(last.stored_ts)
  /\ last.stored_ts # << >>
  /\ Cardinality(google_trends) = 1 + Len(last.stored_ts)

\* C17: at the end of a run the succeeded count is the number of units that
\* reached Succeeded, the failed count the number of units that reached
\* Exhausted, and the two add up to the number of query units.
C17_CountsAreUnits ==
  pc = "done"
    => /\ successful = Cardinality(succeeded_units)
       /\ failed = Cardinality(exhausted_units)
       /\ successful + failed = NUnits

\* An attempt whose fetch completed and produced no record for any term.
EmptyFetch(attempt) ==
  /\ attempt.attempt >= 1
  /\ attempt.source # "provider"
  /\ \A k \in 1..Len(attempt.validated) :
       /\ attempt.validated[k].time_series_records = << >>
       /\ attempt.validated[k].region_records = << >>

SinkOps(trace) ==
  SelectSeq(Ops(trace), LAMBDA op : op \in {"upsert_time_series", "upsert_regions"})

\* C18: in comparative mode an attempt whose fetch completes and yields no
\* record for any term of the batch ends the unit as a success: nothing is
\* written to the sink, the retry counter is not advanced, and no further
\* attempt of the unit follows.
C18_EmptyBatchSucceeds ==
  /\ []((Comparative /\ EmptyFetch(last))
         => /\ ~last.raised
            /\ last.unit \in succeeded_units
            /\ last.unit \notin exhausted_units
            /\ SinkOps(last.trace) = << >>
            /\ last.handed_ts = << >> /\ last.handed_rg = << >>
            /\ last.unit = CurUnit => success /\ attempts = last.attempt)
  /\ [][ /\ (Comparative /\ last' # last /\ EmptyFetch(last'))
             => retries' = retries /\ google_trends' = google_trends
         /\ (Comparative /\ last' # last /\ EmptyFetch(last))
             => last'.unit # last.unit ]_vars

C18_Witness ==
  /\ Comparative
  /\ EmptyFetch(last)
  /\ last.attempt = 2
  /\ MAX_RETRIES = 3
  /\ pc = "done"
  /\ last.unit \in succeeded_units

\* The text without the whitespace before its first and after its last
\* character that is not whitespace.
Trimmed(text) ==
  LET inner == { k \in 1..Len(text) : text[k] \notin {" ", "\t", "\n"} }
  IN IF inner = {} THEN << >>
     ELSE SubSeq(text, CHOOSE k \in inner : \A j \in inner : k <= j,
                       CHOOSE k \in inner : \A j \in inner : k >= j)

\* The provider's region names of an attempt and the names of the region
\* records made from them, row by row.
RawRegions(attempt) ==
  [k \in 1..Len(attempt.answer.df_region.rows) |-> attempt.answer.df_region.rows[k].region]

StoredRegions(attempt) ==
  [k \in 1..Len(attempt.validated[1].region_records) |->
     attempt.validated[1].region_records[k].region]

\* C19: normalizing is idempotent: a name that has been normalized is left
\* as it is by normalizing it again, and no value of the alias table is
\* mapped by the table to another name.
C19_NormalizeIdempotent ==
  /\ \A k \in 1..Len(mappings) : normalize_region_name(mappings[k][2]) = mappings[k][2]
  /\ (last.attempt >= 1 /\ ~last.raised)
       => \A k \in 1..Len(StoredRegions(last)) :
            normalize_region_name(StoredRegions(last)[k]) = StoredRegions(last)[k]

C19_Witness ==
  /\ ~Comparative
  /\ last.attempt = 1 /\ ~last.raised
  /\ RawRegions(last) = << << " " >> \o N_Us >>
  /\ StoredRegions(last) = << N_UnitedStates >>

\* C20: normalizing is total: every region row yields a record; an alias of
\* the table, also with whitespace around it, yields the alias's canonical
\* name; any other name yields exactly the name trimmed, which is not empty
\* unless the trimmed name is.
C20_NormalizeTotal ==
  (last.attempt >= 1 /\ ~last.raised)
    => /\ Len(StoredRegions(last)) = Len(RawRegions(last))
       /\ \A k \in 1..Len(RawRegions(last)) :
            LET raw == RawRegions(last)[k]
                out == StoredRegions(last)[k]
                aliases == { j \in 1..Len(mappings) : mappings[j][1] = Trimmed(raw) }
            IN /\ \A j \in aliases : out = mappings[j][2]
               /\ aliases = {} => out = Trimmed(raw)
               /\ Trimmed(raw) # << >> => out # << >>

C20_Witness ==
  /\ Comparative
  /\ last.attempt = 1 /\ ~last.raised
  /\ RawRegions(last) = << << "\t", " " >> \o N_Burma \o << "\n" >> >>
  /\ StoredRegions(last) = << N_Myanmar >>

\* The interest values of a list of time-series records, in order.
Values(time_series_records) ==
  [k \in 1..Len(time_series_records) |-> time_series_records[k].interest_value]

\* C21: the validator reports the all-zero issue if and only if the series
\* it is given is not empty and every value in it is 0: not for an empty
\* series, not for a series with a value other than 0.
C21_AllZeroIssue ==
  \A k \in 1..Len(last.validated) :
    LET v == last.validated[k]
        values == Values(v.time_series_records)
    IN ("all_zero" \in Range(v.issues))
         <=> (Len(values) > 0 /\ \A j \in 1..Len(values) : values[j] = 0)

C21_Witness ==
  /\ Len(last.validated) = 2
  /\ Values(last.validated[1].time_series_records) = << 100, 7 >>
  /\ Values(last.validated[2].time_series_records) = << 5, 0 >>
  /\ "all_zero" \notin Range(last.validated[2].issues)

\* C22: the validator reports too-few-regions if and only if it is given
\* fewer than 10 region records, whatever the scores and the series; a series
\* of zeros with fewer than 10 regions yields both issues; the verdict is ok
\* exactly when no issue was reported.
C22_FewRegionsIssue ==
  \A k \in 1..Len(last.validated) :
    LET v == last.validated[k]
        values == Values(v.time_series_records)
        zeros == Len(values) > 0 /\ \A j \in 1..Len(values) : values[j] = 0
    IN /\ ("few_regions" \in Range(v.issues)) <=> (Len(v.region_records) < 10)
       /\ (zeros /\ Len(v.region_records) < 10) => v.issues = << "all_zero", "few_regions" >>
       /\ v.ok <=> (v.issues = << >>)

C22_Witness ==
  /\ Len(last.validated) = 2
  /\ last.validated[1].ok
  /\ Len(last.validated[1].region_records) = 10
  /\ last.validated[2].issues = << "all_zero" >>
  /\ Len(last.validated[2].region_records) = 10

\* C23: after a failed attempt the next attempt -- a retry of the unit or
\* the first attempt of the next unit -- issues its provider calls on another
\* session than the one the failed attempt used.
C23_FreshSessionAfterFailure ==
  [][(last' # last /\ last.raised) => last'.session # last.session]_vars

\* The number of events of `trace` with operation `op`.
CountOps(trace, op) == Cardinality({ k \in 1..Len(trace) : trace[k].op = op })

\* C24: there is one session handle, the latest session created; a failed
\* attempt that is retried ends with one sleep of the computed delay followed
\* by one session creation, and the retry runs on that new session; no other
\* attempt creates a session; the sessions created are one more than the
\* Retrying transitions taken.
C24_OneSessionPerRetry ==
  /\ [](/\ pytrends = (IF supabase = "none" THEN 0 ELSE 1 + retrying)
        /\ last.unit > 0 =>
             LET n == Len(last.trace)
                 creates == CountOps(last.trace, "create_pytrends_client")
             IN IF last.retried
                THEN /\ creates = 1
                     /\ n >= 2
                     /\ last.trace[n - 1] = Sleep(last.delay)
                     /\ last.trace[n].op = "create_pytrends_client"
                     /\ pytrends = last.session + 1
                ELSE /\ creates = 0
                     /\ pytrends = last.session)
  /\ [][last' # last => last'.session = pytrends]_vars

C24_Witness ==
  /\ retrying = 2
  /\ pytrends = 3
  /\ last.retried
  /\ last.session = 2
  /\ last.delay = 2 * DELAY_ON_RATE_LIMIT

ProviderOps == { "build_payload", "interest_over_time", "interest_by_region" }

\* The provider calls of `trace`, in order.
ProviderCalls(trace) == SelectSeq(Ops(trace), LAMBDA op : op \in ProviderOps)

\* Whether `trace` has a pause after its last provider call.
PausedAfterLastCall(trace) ==
  \E k \in 1..Len(trace) :
    /\ trace[k].op = "sleep"
    /\ \A j \in (k + 1)..Len(trace) : trace[j].op \notin ProviderOps

\* C25: when a unit's first attempt begins, the last attempt of the unit
\* before it -- ended Succeeded or Exhausted -- paused after its last
\* provider call.
C25_PauseBetweenUnits ==
  [][(last' # last /\ last.unit > 0 /\ last'.unit # last.unit)
       => PausedAfterLastCall(last.trace)]_vars

\* C27: every attempt builds one query, for the term set of its unit, then
\* fetches the time series once, then the regions once, in that order; when
\* the build raises no fetch is issued, when the time-series fetch raises the
\* region fetch is not issued.
C27_BuildThenSeriesThenRegions ==
  last.unit > 0 =>
    LET calls == ProviderCalls(last.trace)
        all == << "build_payload", "interest_over_time", "interest_by_region" >>
    IN /\ calls # << >>
       /\ IsPrefix(calls, all)
       /\ last.query = planned[last.unit]
       /\ last.answer.raise_at = "build_payload" => calls = << "build_payload" >>
       /\ last.answer.raise_at = "interest_over_time"
            => calls = << "build_payload", "interest_over_time" >>
       /\ last.answer.raise_at \in { "interest_by_region", "none" } => calls = all

C27_Witness ==
  /\ last.unit = 2
  /\ last.attempt = 2
  /\ last.answer.raise_at = "interest_over_time"
  /\ ProviderCalls(last.trace) = << "build_payload", "interest_over_time" >>

\* C26 as stated: two attempts of a run that compute a cutoff compute the
\* same cutoff, also when the date changed between them.
C26_OneCutoffPerRun ==
  [][(last' # last /\ last.cutoff_date # NoCutoff /\ last'.cutoff_date # NoCutoff)
       => last'.cutoff_date = last.cutoff_date]_vars

\* The rows of the attempt's series frame that pass the filters when the
\* rows dated after `cutoff` are excluded.
RowsUpTo(attempt, cutoff) ==
  SelectSeq(attempt.answer.df_time.rows,
            LAMBDA row : row.date <= cutoff /\ ~IsPartial(attempt.answer.df_time, row))

\* C26: the partial-day cutoff is a value per attempt: every attempt that
\* receives a series filters it against the date of the attempt minus
\* EXCLUDE_RECENT_DAYS, so attempts on one date use the same cutoff and
\* attempts after the date has changed use the later one.
C26_CutoffPerAttempt ==
  /\ [](last.cutoff_date # NoCutoff =>
          /\ last.cutoff_date = last.today - EXCLUDE_RECENT_DAYS
          /\ \A k \in 1..Len(last.validated) :
               LET v == last.validated[k]
                   rows == RowsUpTo(last, last.cutoff_date)
               IN v.disease \in last.answer.df_time.columns
                    => [j \in 1..Len(v.time_series_records) |-> v.time_series_records[j].date]
                         = [j \in 1..Len(rows) |-> rows[j].date])
  /\ [][(last' # last /\ last.cutoff_date # NoCutoff /\ last'.cutoff_date # NoCutoff)
          => (last'.cutoff_date = last.cutoff_date) = (last'.today = last.today)]_vars

C26_Witness ==
  /\ last.unit = 2
  /\ last.today = TodayStart + 1
  /\ collection_date = TodayStart
  /\ last.cutoff_date = TodayStart + 1 - EXCLUDE_RECENT_DAYS
  /\ \E j \in 1..Len(last.validated[1].time_series_records) :
       last.validated[1].time_series_records[j].date = TodayStart + 1 - EXCLUDE_RECENT_DAYS

\* The k-th query unit in planner order.
PlannerUnit(k) ==
  IF Comparative
  THEN SubSeq(TRACKED_DISEASES, (k - 1) * BATCH_SIZE + 1,
              Min(k * BATCH_SIZE, Len(TRACKED_DISEASES)))
  ELSE << TRACKED_DISEASES[k] >>

\* C28: query units are processed one at a time in planner order: every
\* attempt -- its provider calls and sink writes -- is for the unit entered
\* last, the units are entered in planner order, the unit of an attempt is
\* never one before the unit of the attempt before it, and an attempt for the
\* next unit happens only after the unit before it reached Succeeded or
\* Exhausted.
C28_OneUnitAtATime ==
  /\ [](\A k \in 1..Len(planned) : planned[k] = PlannerUnit(k))
  /\ [][last' # last =>
          /\ last'.unit = Len(planned)
          /\ last'.query = PlannerUnit(last'.unit)
          /\ last'.unit >= last.unit
          /\ last'.unit # last.unit =>
               /\ last'.unit = last.unit + 1
               /\ last.unit > 0 => last.unit \in succeeded_units \cup exhausted_units]_vars

C28_Witness ==
  /\ Comparative
  /\ last.unit = 2
  /\ last.attempt = 2
  /\ last.raised
  /\ 1 \in succeeded_units
  /\ MAX_RETRIES = 3

\* C29: the retry counter is per query unit.  It is 0 when a unit begins,
\* whatever the unit before left; a unit is left only after it succeeded or
\* after MAX_RETRIES attempts; the failure that exhausts a unit is the one of
\* its attempt MAX_RETRIES; the rate-limit delay after the unit's n-th attempt
\* is DELAY_ON_RATE_LIMIT * 2^(n - 1), whatever happened in other units.
C29_RetryCounterPerUnit ==
  /\ [](last.unit > 0 /\ last.raised =>
          /\ last.retried = (last.attempt < MAX_RETRIES)
          /\ (last.retried /\ last.is_rate_limit)
               => last.delay = DELAY_ON_RATE_LIMIT * Pow2(last.attempt - 1))
  /\ [][planned' # planned => retries' = 0]_vars
  /\ [][(pc = "while" /\ pc' = "for") => (success \/ attempts = MAX_RETRIES)]_vars

C29_Witness ==
  /\ MAX_RETRIES = 3
  /\ 1 \in exhausted_units
  /\ last.unit = 2
  /\ last.attempt = 1
  /\ last.retried
  /\ last.is_rate_limit
  /\ last.delay = DELAY_ON_RATE_LIMIT
  /\ retries = 1

\* Whether `chunks` are the first chunks of `records`: consecutive pieces of
\* 100 records, the last piece of the list holding what remains.
ChunksOfList(chunks, records) ==
  /\ Len(chunks) <= (Len(records) + 99) \div 100
  /\ \A j \in 1..Len(chunks) :
       /\ chunks[j] = SubSeq(records, 100 * (j - 1) + 1, Min(100 * j, Len(records)))
       /\ Len(chunks[j]) \in 1..100

\* Whether the uploads of the attempt split the lists `handed` into `sent`.
Chunked(attempt, handed, sent) ==
  /\ Len(sent) = Len(handed)
  /\ \A k \in 1..Len(handed) :
       /\ handed[k] # << >>
       /\ ChunksOfList(sent[k], handed[k])
       /\ (attempt.source = "none" \/ k < Len(handed)) => Flatten(sent[k]) = handed[k]

\* C30: every upload splits its list into consecutive chunks of at most 100
\* records whose concatenation is the list, one upsert call per chunk --
\* ceil(n/100) calls for n records -- and an empty list causes no sink call.
C30_ChunksOfHundred ==
  last.unit > 0 =>
    /\ Chunked(last, last.handed_ts, last.sent_ts)
    /\ Chunked(last, last.handed_rg, last.sent_rg)
    /\ CountOps(last.trace, "upsert_time_series")
         = SumSeq([k \in 1..Len(last.sent_ts) |-> Len(last.sent_ts[k])])
    /\ CountOps(last.trace, "upsert_regions")
         = SumSeq([k \in 1..Len(last.sent_rg) |-> Len(last.sent_rg[k])])
    /\ last.source = "none" =>
         /\ CountOps(last.trace, "upsert_time_series")
              = SumSeq([k \in 1..Len(last.validated) |->
                          (Len(last.validated[k].time_series_records) + 99) \div 100])
         /\ CountOps(last.trace, "upsert_regions")
              = SumSeq([k \in 1..Len(last.validated) |->
                          (Len(last.validated[k].region_records) + 99) \div 100])

C30_Witness ==
  /\ last.source = "none"
  /\ Len(last.validated) = 2
  /\ Len(last.handed_ts) = 2
  /\ Len(last.handed_ts[1]) = 101
  /\ Len(last.sent_ts[1]) = 2
  /\ Len(last.handed_rg) = 2
  /\ Len(last.handed_rg[1]) = 201
  /\ Len(last.sent_rg[1]) = 3
  /\ Len(last.sent_rg[1][3]) = 1
  /\ CountOps(last.trace, "upsert_regions") = 6

\* C31: a value of 0 is a data point like any other.  After an attempt that
\* completed, for every term of the query, every row of the returned series
\* that is dated on or before the cutoff and not flagged partial has been
\* handed to the sink and is in the table with the value the provider gave,
\* and every region whose score is not missing has been handed to the sink
\* with that score -- a value or a score of 0 included.
C31_ZeroIsKept ==
  (last.attempt >= 1 /\ last.source = "none")
    => LET df_time == last.answer.df_time
           df_region == last.answer.df_region
           sent == AllRecords(last.handed_ts)
           regions == AllRecords(last.handed_rg)
       IN \A d \in Range(last.query) :
            /\ d \in df_time.columns
                 => \A j \in 1..Len(df_time.rows) :
                      LET row == df_time.rows[j]
                          r == [disease |-> d, date |-> row.date, interest_value |-> row.val[d]]
                      IN (/\ EXCLUDE_PARTIAL_DATA => row.date <= last.today - EXCLUDE_RECENT_DAYS
                          /\ ~(EXCLUDE_PARTIAL_DATA /\ df_time.has_isPartial /\ row.isPartial))
                           => /\ \E k \in 1..Len(sent) : sent[k] = r
                              /\ r \in google_trends
            /\ d \in df_region.columns
                 => \A j \in 1..Len(df_region.rows) :
                      LET row == df_region.rows[j]
                      IN row.score[d] # NaN
                           => \E k \in 1..Len(regions) :
                                /\ regions[k].disease = d
                                /\ regions[k].region = normalize_region_name(row.region)
                                /\ regions[k].popularity_score = row.score[d]

C31_Witness ==
  /\ last.attempt >= 1
  /\ last.source = "none"
  /\ last.answer.df_time = MixedFrame(Range(last.query))
  /\ last.answer.df_region = ScoredRegionFrame(Range(last.query))
  /\ \E x \in google_trends : x.interest_value = 0
  /\ \E k \in 1..Len(AllRecords(last.handed_ts)) :
       AllRecords(last.handed_ts)[k].interest_value = 0
  /\ \E k \in 1..Len(AllRecords(last.handed_rg)) :
       /\ AllRecords(last.handed_rg)[k].popularity_score = 0
       /\ AllRecords(last.handed_rg)[k].region = N_France

\* C32: every run past the validation of the environment terminates, whatever
\* the provider and the sink do: the loops execute at most
\* (number of units) * MAX_RETRIES attempts in total, and the run reaches its
\* summary with every query unit either Succeeded or Exhausted.
C32_RunTerminates ==
  /\ [](attempts_total <= NUnits * MAX_RETRIES)
  /\ (pc = "for") ~> (pc = "done" /\ succeeded_units \cup exhausted_units = Units)

C32_Witness ==
  /\ pc = "done"
  /\ NUnits >= 2
  /\ MAX_RETRIES = 2
  /\ attempts_total = NUnits * MAX_RETRIES
  /\ exhausted_units = Units
  /\ last.source = "sink"

\* C33: each catalog term is counted at most once across the succeeded and
\* failed counters, in either mode and whatever fails: the two counters
\* never add up to more than the size of the catalog.
C33_CountedAtMostOnce ==
  successful + failed <= Len(TRACKED_DISEASES)

\* C34: the record totals count the records of each unit at most once: an
\* attempt adds to the time-series (resp. region) total the records it
\* uploaded when it is the attempt in which its unit succeeds, and nothing
\* otherwise, so that at the end of the run each total is the sum, over the
\* Succeeded units, of the records uploaded by the unit's final attempt.
C34_TotalsCountFinalAttempts ==
  [][ attempts_total' # attempts_total
        => /\ total_records' = total_records
                + (IF last'.source = "none" THEN Len(AllRecords(last'.handed_ts)) ELSE 0)
           /\ total_region_records' = total_region_records
                + (IF last'.source = "none" THEN Len(AllRecords(last'.handed_rg)) ELSE 0) ]_vars

UpsertOps(trace) ==
  SelectSeq(trace, LAMBDA e : e.op \in {"upsert_time_series", "upsert_regions"})

\* The time-series chunks whose upsert call completed in the attempt: all
\* chunks sent, but the last one when the call that raised is a time-series
\* upsert.
CompletedTimeSeriesCalls(attempt) ==
  LET chunks == Flatten(attempt.sent_ts)
      ops == UpsertOps(attempt.trace)
  IN IF attempt.source = "sink" /\ ops[Len(ops)].op = "upsert_time_series"
     THEN SubSeq(chunks, 1, Len(chunks) - 1)
     ELSE chunks

C36_SinkErrorRetried ==
  /\ []((last.raised /\ last.source = "sink")
         => LET n == Len(last.trace)
            IN /\ last.attempt <= MAX_RETRIES
               /\ last.is_rate_limit <=> HasRateLimitSignature(last.error_msg)
               /\ last.retried <=> last.attempt < MAX_RETRIES
               /\ last.retried
                    => /\ last.delay = IF last.is_rate_limit
                                       THEN DELAY_ON_RATE_LIMIT * Pow2(last.attempt - 1)
                                       ELSE DELAY_ON_ERROR
                       /\ n >= 2
                       /\ last.trace[n - 1] = Sleep(last.delay)
                       /\ last.trace[n].op = "create_pytrends_client")
  /\ [][ (attempts_total' # attempts_total /\ last'.raised /\ last'.source = "sink")
          => /\ retries' = retries + 1
             /\ pytrends' = IF retries' < MAX_RETRIES THEN pytrends + 1 ELSE pytrends ]_vars
  /\ [][ (attempts_total' # attempts_total /\ last.raised /\ last.source = "sink"
           /\ last'.unit = last.unit)
          => /\ last'.attempt = last.attempt + 1
             /\ last'.session = last.session + 1
             /\ last'.trace[1].op = "build_payload"
             /\ UpsertOps(last'.trace) # << >>
                  => Ops(SubSeq(last'.trace, 1, 5))
                       = << "build_payload", "sleep", "interest_over_time",
                            "sleep", "interest_by_region" >> ]_vars

C36_Witness ==
  /\ last.raised
  /\ last.source = "sink"
  /\ last.retried
  /\ ~last.is_rate_limit
  /\ last.attempt = 1
  /\ last.stored_ts # << >>
  /\ pytrends = 2

\* The seconds slept in `trace` after its last provider or sink call.
SleptAfterLastCall(trace) ==
  LET calls == { k \in 1..Len(trace) :
                   trace[k].op \in ProviderOps \cup {"upsert_time_series", "upsert_regions"} }
  IN SumSeq([k \in 1..Len(trace) |->
               IF trace[k].op = "sleep" /\ \A j \in calls : j < k
               THEN trace[k].secs ELSE 0])

\* C37: when an attempt begins and the attempt before it -- of the same unit
\* or of the unit before -- failed and was classified rate-limited, the run
\* has slept at least DELAY_ON_RATE_LIMIT seconds since the failure.
C37_RateLimitDelayBeforeNextCall ==
  [][ (attempts_total' # attempts_total /\ last.raised /\ last.is_rate_limit)
        => SleptAfterLastCall(last.trace) >= DELAY_ON_RATE_LIMIT ]_vars

\* The region records of the k-th term of the attempt, when the frame of
\* regions has a score for every region: one record per row of the frame.
RegionRecordsPerRow(attempt, k) ==
  LET v == attempt.validated[k]
  IN /\ v.disease \in attempt.answer.df_region.columns
     /\ Len(v.region_records) = Len(attempt.answer.df_region.rows)

RegionKey(r) == << r.disease, r.region, r.date >>

\* C38 as stated: when the region names the provider returned are pairwise
\* distinct, the region records of one term in one attempt have pairwise
\* distinct keys (term, region, collection_date).
C38_DistinctNamesDistinctKeys ==
  (last.attempt >= 1 /\ last.source # "provider")
    => \A k \in 1..Len(last.validated) :
         LET rows == last.answer.df_region.rows
             records == last.validated[k].region_records
         IN (/\ RegionRecordsPerRow(last, k)
             /\ \A a, b \in 1..Len(rows) : a # b => rows[a].region # rows[b].region)
              => \A a, b \in 1..Len(records) :
                   a # b => RegionKey(records[a]) # RegionKey(records[b])

\* The names that stand for one region: a name and its variants.
RegionVariants ==
  { { N_UnitedStates, N_Us, N_Usa },
    { N_UnitedKingdom, N_Uk },
    { N_DemocraticRepublicOfCongo, N_CongoKinshasa, N_Drc },
    { N_Congo, N_CongoBrazzaville },
    { N_Myanmar, N_MyanmarBurma, N_Burma } }

\* Two names of the provider stand for one region: they are equal up to
\* surrounding whitespace, or variants of one region.
SameRegion(a, b) ==
  \/ Strip(a) = Strip(b)
  \/ \E g \in RegionVariants : Strip(a) \in g /\ Strip(b) \in g

\* C38, amended: the region records of one term in one attempt have pairwise
\* distinct keys whenever no two of the provider's region names stand for one
\* region; two names that do -- variants that normalization maps to one
\* canonical name -- give two records with the same key.
C38_KeysUniqueUpToVariants ==
  (last.attempt >= 1 /\ last.source # "provider")
    => \A k \in 1..Len(last.validated) :
         LET rows == last.answer.df_region.rows
             records == last.validated[k].region_records
         IN RegionRecordsPerRow(last, k)
              => \A a, b \in 1..Len(records) :
                   a # b => (RegionKey(records[a]) = RegionKey(records[b])
                               <=> SameRegion(rows[a].region, rows[b].region))

C38_Witness ==
  /\ last.attempt >= 1
  /\ last.source = "none"
  /\ last.answer.df_region = TenRegionFrame(Range(last.query))
  /\ Len(last.handed_rg) >= 1
  /\ Len(last.handed_rg[1]) = 10
  /\ Cardinality({ RegionKey(last.handed_rg[1][a]) : a \in 1..10 }) = 6

\* C39: on a unit of one term the two collect functions agree.  For the
\* answer of the provider and the date of any attempt on a one-term query,
\* collect_data_for_batch with the one-term batch raises if and only if
\* collect_all_data_for_disease raises, with the same error, and otherwise
\* returns for the term the same time-series list and the same region list,
\* record by record; the attempt ran one of the two and its outcome is
\* theirs.
C39_PathsAgreeOnSingleton ==
  (last.attempt >= 1 /\ Len(last.query) = 1)
    => LET disease == last.query[1]
           batch == collect_data_for_batch(last.answer, << disease >>,
                                           collection_date, last.today)
           single == collect_all_data_for_disease(last.answer, disease,
                                                  collection_date, last.today)
       IN /\ batch.raised <=> single.raised
          /\ batch.error_msg = single.error_msg
          /\ batch.time_series_dict[disease] = single.time_series_records
          /\ batch.region_dict[disease] = single.region_records
          /\ single.raised <=> last.source = "provider"
          /\ ~single.raised
               => /\ last.validated[1].time_series_records = single.time_series_records
                  /\ last.validated[1].region_records = single.region_records

C39_Witness ==
  /\ last.attempt >= 1
  /\ Comparative
  /\ last.unit = 2
  /\ Len(last.query) = 1
  /\ last.answer.raise_at = "none"
  /\ last.answer.df_time = GapFrame(Range(last.query))
  /\ last.source = "none"
  /\ Len(last.validated[1].time_series_records) = 1
  /\ Len(last.validated[1].region_records) = 2

\* The rows of the series the provider returned that are dated on or before
\* `cutoff` and not flagged partial, in the provider's order, as records of
\* the term.
FinishedRows(df_time, disease, cutoff) ==
  LET finished == SelectSeq(df_time.rows,
                            LAMBDA row : /\ row.date <= cutoff
                                         /\ ~(df_time.has_isPartial /\ row.isPartial))
  IN [j \in 1..Len(finished) |->
        [disease |-> disease, date |-> finished[j].date,
         interest_value |-> finished[j].val[disease]]]

\* C40: with partial-day exclusion enabled, the series collected for a term
\* and handed to the sink is exactly the rows the provider returned for the
\* term that are dated on or before the cutoff of the attempt and not flagged
\* partial, in the provider's order, and these are the rows of the term in
\* the table after the attempt: a flagged row is dropped whatever its date,
\* and no other row is.
C40_ExactlyTheFinishedRows ==
  (EXCLUDE_PARTIAL_DATA /\ last.attempt >= 1 /\ last.source = "none")
    => \A k \in 1..Len(last.validated) :
         LET disease == last.validated[k].disease
             expected == IF disease \in last.answer.df_time.columns
                         THEN FinishedRows(last.answer.df_time, disease,
                                           last.today - EXCLUDE_RECENT_DAYS)
                         ELSE << >>
         IN /\ last.validated[k].time_series_records = expected
            /\ expected # << >> => \E j \in 1..Len(last.handed_ts) : last.handed_ts[j] = expected
            /\ { x \in google_trends : x.disease = disease } = Range(expected)

C40_Witness ==
  /\ last.attempt >= 1
  /\ last.source = "none"
  /\ last.today = TodayStart + 1
  /\ last.answer.df_time = MixedFrame(Range(last.query))
  /\ Len(last.validated[1].time_series_records) = 3
  /\ Cardinality(google_trends) >= 3
  /\ \A x \in google_trends : x.date # TodayStart - EXCLUDE_RECENT_DAYS - 1

====
